---- MODULE Spec2Model ----
(***************************************************************************)
(* DRE Guardian: the evaluation core of guardian/monitor.py (DREMonitor),  *)
(* the gate engine of guardian/core/brain.py, the ingestion read of        *)
(* guardian/core/ingestor.py and the debounced trigger pipeline of         *)
(* guardian/watcher/watcher.py, as one state machine.                      *)
(*                                                                         *)
(* Threads: "mon" (DREMonitor.run: the initial cycle, then the observer),  *)
(* "api" (the event loop that serves POST /override and calls              *)
(* register_bypass), and one thread per threading.Timer that on_modified   *)
(* starts.  Time is a discrete clock `now`; debounce, bypass time-to-live  *)
(* and the length of a day are counted in ticks of that clock.             *)
(*                                                                         *)
(* Numbers: distributions are integer triples whose beta shape parameters  *)
(* 1 + 4(mode-min)/range are integers, densities are compared by cross     *)
(* multiplication, the overlap integral is kept in thousandths and the     *)
(* stability ratio in hundredths.                                          *)
(***************************************************************************)
EXTENDS Integers, Sequences, FiniteSets, TLC

\* ------------------------------------------------------------------ bounds
MaxTime == 3          \* the clock runs 0..MaxTime
MaxEvents == 2        \* file events (modifications of the target file)
MaxRequests == 2      \* override requests served by the api thread

\* ------------------------------------------------- program constants (ticks)
DebounceTicks == 2    \* debounce_seconds of the watcher, in ticks
TtlTicks == 1         \* expiry_seconds the override endpoint passes, in ticks
TicksPerDay == 2      \* one day of timedelta.days, in ticks
OverlapScale == 1000  \* overlap values are thousandths
MinimalOverlap == 10  \* the 0.01 of _calculate_overlap and gate_3_convergence

None == <<"None">>
StaticValue == <<"static_value">>

\* ---------------------------------------------------------------- manifest
\* schema.py: PertDistribution; check_distribution admits min <= mode <= max.
Pert(lo, mo, hi) == [min |-> lo, mode |-> mo, max |-> hi]

\* ExcelIngestor._get_formula_hash: a formula is the sequence of its
\* characters; SHA-256 is an injective tag on the text.
_get_formula_hash(formula) ==
    IF formula = None \/ formula = <<>> \/ formula[1] # "="
    THEN StaticValue
    ELSE <<"sha256">> \o formula

FormulaA == <<"=", "A">>
FormulaB == <<"=", "B">>

\* A datetime: its wall-clock reading in ticks, whether it carries a tzinfo,
\* and that zone's offset from UTC in ticks (0 for a naive one).
Naive(wall) == [wall |-> wall, aware |-> FALSE, offset |-> 0]
Aware(wall, offset) == [wall |-> wall, aware |-> TRUE, offset |-> offset]

\* schema.py: Assertion (id, binding.formula_hash, last_updated, sla_days,
\* distribution); the fields no gate reads are left out.
Assertion(id, hash, updated, sla, dist) ==
    [id |-> id, formula_hash |-> hash, last_updated |-> updated,
     sla_days |-> sla, distribution |-> dist]

\* The manifests a run may be started with.  conflict_pairs is read by the
\* coordinator (monitor.py:861) as a list of id pairs; thresholds are the
\* schema defaults 0.15 (hundredths) and 0.05 (thousandths).
ManifestWith(dist2) ==
    [assertions |-> << Assertion("a1", _get_formula_hash(FormulaA), Naive(0 - 2), 1,
                                  Pert(0, 2, 4)),
                       Assertion("a2", StaticValue, Naive(0), 5, dist2) >>,
     conflict_pairs |-> << <<"a1", "a2">> >>,
     stability_threshold |-> 15,
     overlap_integral_cutoff |-> 50]

Manifests == { ManifestWith(Pert(0, 2, 4)), ManifestWith(Pert(6, 7, 8)) }

Ids == {"a1", "a2"}
UnknownId == "zz"

\* ------------------------------------------------------------ sheet contents
NoValue == [kind |-> "none", v |-> 0]
Num(n) == [kind |-> "num", v |-> n]
Cell(value, formula) == [value |-> value, formula |-> formula]

\* The contents the target workbook may have after a save.
Sheets ==
    { [a1 |-> Cell(Num(2), FormulaA), a2 |-> Cell(Num(2), None)],
      [a1 |-> Cell(Num(9), FormulaB), a2 |-> Cell(NoValue, None)] }

\* ------------------------------------------------------------------- gates
RECURSIVE Pow(_, _)
Pow(b, e) == IF e = 0 THEN 1 ELSE b * Pow(b, e - 1)

RECURSIVE Fact(_)
Fact(n) == IF n = 0 THEN 1 ELSE n * Fact(n - 1)

_pert_to_beta_flat(pert) ==
    [alpha |-> 1, beta |-> 1, loc |-> pert.min, scale |-> pert.max - pert.min]

\* GateEngine._pert_to_beta
_pert_to_beta(pert) ==
    LET range_val == pert.max - pert.min IN
    IF range_val = 0
    THEN [alpha |-> 1, beta |-> 1, loc |-> pert.min, scale |-> 0]
    ELSE [alpha |-> 1 + (4 * (pert.mode - pert.min)) \div range_val,
          beta |-> 1 + (4 * (pert.max - pert.mode)) \div range_val,
          loc |-> pert.min, scale |-> range_val]

\* scipy.stats.beta.pdf((x - loc)/scale, alpha, beta) as a fraction num/den:
\* k^(alpha-1) (scale-k)^(beta-1) / (B(alpha,beta) scale^(alpha+beta-2)), zero
\* outside the support.
BetaPdfNum(b, x) ==
    LET k == x - b.loc IN
    IF k < 0 \/ k > b.scale THEN 0
    ELSE Fact(b.alpha + b.beta - 1) * Pow(k, b.alpha - 1) * Pow(b.scale - k, b.beta - 1)

BetaPdfDen(b) ==
    Fact(b.alpha - 1) * Fact(b.beta - 1) * Pow(b.scale, b.alpha + b.beta - 2)

\* last_updated.replace(tzinfo=timezone.utc) for a naive value, lines 212-214
AsUtc(dt) == IF dt.aware THEN dt ELSE Aware(dt.wall, 0)

\* the instant an aware datetime denotes, in ticks of UTC: what the
\* subtraction of line 216 compares
Instant(dt) == dt.wall - dt.offset

gate_1_freshness_halts_at_sla(assertion, t) ==
    LET days_since_update == (t - Instant(AsUtc(assertion.last_updated))) \div TicksPerDay
        sla_breached == days_since_update >= assertion.sla_days
    IN [status |-> IF sla_breached THEN "HALT" ELSE "PASS",
        days_since_update |-> days_since_update,
        sla_days |-> assertion.sla_days]

\* GateEngine.gate_1_freshness at clock value t (UTC); timedelta.days is the
\* floor of the difference in days
gate_1_freshness(assertion, t) ==
    LET last_updated == AsUtc(assertion.last_updated)
        days_since_update == (t - Instant(last_updated)) \div TicksPerDay
        sla_breached == days_since_update > assertion.sla_days
    IN [status |-> IF sla_breached THEN "HALT" ELSE "PASS",
        days_since_update |-> days_since_update,
        sla_days |-> assertion.sla_days]

RECURSIVE Gcd(_, _)
Gcd(a, b) == IF b = 0 THEN a ELSE Gcd(b, a % b)

\* a fraction in lowest terms (den > 0)
Frac(num, den) == [num |-> num \div Gcd(num, den), den |-> den \div Gcd(num, den)]

\* (x - loc) / scale, lines 260-261 and 276, for loc <= x <= loc + scale
Normalized(x, b) == Frac(x - b.loc, b.scale)

\* beta.pdf(x, alpha, beta) * B(alpha, beta) for x = num/den in [0, 1]:
\* x^(alpha-1) (1-x)^(beta-1), as a fraction
ShapeAt(x, b) ==
    [num |-> Pow(x.num, b.alpha - 1) * Pow(x.den - x.num, b.beta - 1),
     den |-> Pow(x.den, b.alpha + b.beta - 2)]

\* pdf_at_current / pdf_at_mode if pdf_at_mode > 0 else 0, line 282; the
\* factor 1/B(alpha, beta) is common to both densities
PdfRatio(b, current_value, mode) ==
    LET at_current == ShapeAt(Normalized(current_value, b), b)
        at_mode == ShapeAt(Normalized(mode, b), b)
    IN IF at_mode.num > 0
       THEN Frac(at_current.num * at_mode.den, at_current.den * at_mode.num)
       ELSE Frac(0, 1)

gate_2_stability_open_range(assertion, threshold, current_value) ==
    LET dist == assertion.distribution
        b == _pert_to_beta(dist)
    IN IF current_value.kind = "none"
       THEN [status |-> "SKIP", reason |-> "No current value"]
       ELSE IF b.scale = 0
       THEN IF current_value.v = b.loc
            THEN [status |-> "PASS", reason |-> "Value matches point distribution"]
            ELSE [status |-> "HALT", reason |-> "Value deviates from point distribution"]
       ELSE IF current_value.v <= b.loc \/ current_value.v >= b.loc + b.scale
       THEN [status |-> "HALT", reason |-> "Value outside distribution range",
             pdf_probability |-> 0]
       ELSE LET pdf_ratio == PdfRatio(b, current_value.v, dist.mode)
                is_stable == 100 * pdf_ratio.num >= threshold * pdf_ratio.den
            IN [status |-> IF is_stable THEN "PASS" ELSE "HALT", reason |-> "ratio",
                pdf_ratio_to_mode |-> pdf_ratio]

\* GateEngine.gate_2_stability; the threshold is in hundredths
gate_2_stability(assertion, threshold, current_value) ==
    LET dist == assertion.distribution
        b == _pert_to_beta(dist)
    IN IF current_value.kind = "none"
       THEN [status |-> "SKIP", reason |-> "No current value"]
       ELSE IF b.scale = 0
       THEN IF current_value.v = b.loc
            THEN [status |-> "PASS", reason |-> "Value matches point distribution"]
            ELSE [status |-> "HALT", reason |-> "Value deviates from point distribution"]
       ELSE IF current_value.v < b.loc \/ current_value.v > b.loc + b.scale
       THEN [status |-> "HALT", reason |-> "Value outside distribution range",
             pdf_probability |-> 0]
       ELSE LET pdf_ratio == PdfRatio(b, current_value.v, dist.mode)
                is_stable == 100 * pdf_ratio.num >= threshold * pdf_ratio.den
            IN [status |-> IF is_stable THEN "PASS" ELSE "HALT", reason |-> "ratio",
                pdf_ratio_to_mode |-> pdf_ratio]

gate_4_structure_stored_only(stored_hash, current_hash) ==
    IF stored_hash = None
    THEN [status |-> "SKIP"]
    ELSE [status |-> IF stored_hash = current_hash THEN "PASS" ELSE "HALT"]

\* GateEngine.gate_4_structure
gate_4_structure(stored_hash, current_hash) ==
    IF stored_hash = None \/ current_hash = None
    THEN [status |-> "SKIP"]
    ELSE [status |-> IF stored_hash = current_hash THEN "PASS" ELSE "HALT"]

Min2(a, b) == IF a <= b THEN a ELSE b
Max2(a, b) == IF a >= b THEN a ELSE b

RECURSIVE SumOver(_, _, _, _)
\* sum over the integer points lo..hi of min(pdf1, pdf2), numerator over the
\* common denominator BetaPdfDen(b1) * scale1 * BetaPdfDen(b2) * scale2
SumOver(b1, b2, lo, hi) ==
    IF lo > hi THEN 0
    ELSE Min2(BetaPdfNum(b1, lo) * BetaPdfDen(b2) * b2.scale,
              BetaPdfNum(b2, lo) * BetaPdfDen(b1) * b1.scale)
         + SumOver(b1, b2, lo + 1, hi)

_calculate_overlap_first_point(pert1, pert2) ==
    LET b1 == _pert_to_beta(pert1)
        b2 == _pert_to_beta(pert2)
        common_min == Max2(b1.loc, b2.loc)
        common_max == Min2(b1.loc + b1.scale, b2.loc + b2.scale)
    IN IF b1.scale = 0 /\ b2.scale = 0
       THEN IF b1.loc = b2.loc THEN OverlapScale ELSE 0
       ELSE IF b1.scale = 0
       THEN MinimalOverlap
       ELSE IF common_min >= common_max
       THEN 0
       ELSE LET den == BetaPdfDen(b1) * b1.scale * BetaPdfDen(b2) * b2.scale
                sum == SumOver(b1, b2, common_min, common_max)
                raw == IF den >= OverlapScale
                       THEN sum \div (den \div OverlapScale)
                       ELSE (OverlapScale * sum) \div den
            IN Max2(0, Min2(OverlapScale, raw))

_calculate_overlap_support_first(pert1, pert2) ==
    LET b1 == _pert_to_beta(pert1)
        b2 == _pert_to_beta(pert2)
        common_min == Max2(b1.loc, b2.loc)
        common_max == Min2(b1.loc + b1.scale, b2.loc + b2.scale)
    IN IF common_min >= common_max
       THEN 0
       ELSE IF b1.scale = 0 /\ b2.scale = 0
       THEN IF b1.loc = b2.loc THEN OverlapScale ELSE 0
       ELSE IF b1.scale = 0 \/ b2.scale = 0
       THEN MinimalOverlap
       ELSE LET den == BetaPdfDen(b1) * b1.scale * BetaPdfDen(b2) * b2.scale
                sum == SumOver(b1, b2, common_min, common_max)
                raw == IF den >= OverlapScale
                       THEN sum \div (den \div OverlapScale)
                       ELSE (OverlapScale * sum) \div den
            IN Max2(0, Min2(OverlapScale, raw))

\* GateEngine._calculate_overlap, in thousandths; the quadrature is the sum of
\* the integrand over the integer points of the common support.
_calculate_overlap(pert1, pert2) ==
    LET b1 == _pert_to_beta(pert1)
        b2 == _pert_to_beta(pert2)
        common_min == Max2(b1.loc, b2.loc)
        common_max == Min2(b1.loc + b1.scale, b2.loc + b2.scale)
    IN IF b1.scale = 0 /\ b2.scale = 0
       THEN IF b1.loc = b2.loc THEN OverlapScale ELSE 0
       ELSE IF b1.scale = 0 \/ b2.scale = 0
       THEN MinimalOverlap
       ELSE IF common_min >= common_max
       THEN 0
       ELSE LET den == BetaPdfDen(b1) * b1.scale * BetaPdfDen(b2) * b2.scale
                sum == SumOver(b1, b2, common_min, common_max)
                raw == IF den >= OverlapScale
                       THEN sum \div (den \div OverlapScale)
                       ELSE (OverlapScale * sum) \div den
            IN Max2(0, Min2(OverlapScale, raw))

gate_3_convergence_critical_at_minimal(assertion1, assertion2, cutoff) ==
    LET overlap == _calculate_overlap(assertion1.distribution, assertion2.distribution)
    IN IF overlap >= cutoff
       THEN [status |-> "PASS", severity |-> "INFO", overlap_integral |-> overlap]
       ELSE [status |-> "HALT",
             severity |-> IF overlap <= MinimalOverlap THEN "CRITICAL" ELSE "MAJOR",
             overlap_integral |-> overlap]

gate_3_convergence_always_major(assertion1, assertion2, cutoff) ==
    LET overlap == _calculate_overlap(assertion1.distribution, assertion2.distribution)
    IN IF overlap >= cutoff
       THEN [status |-> "PASS", severity |-> "INFO", overlap_integral |-> overlap]
       ELSE [status |-> "HALT", severity |-> "MAJOR", overlap_integral |-> overlap]

\* GateEngine.gate_3_convergence
gate_3_convergence(assertion1, assertion2, cutoff) ==
    LET overlap == _calculate_overlap(assertion1.distribution, assertion2.distribution)
    IN IF overlap >= cutoff
       THEN [status |-> "PASS", severity |-> "INFO", overlap_integral |-> overlap]
       ELSE [status |-> "HALT",
             severity |-> IF overlap < MinimalOverlap THEN "CRITICAL" ELSE "MAJOR",
             overlap_integral |-> overlap]

\* GateEngine.get_human_narrative: the title and the action of the narrative
\* and the template of its message (the message also names the assertion,
\* which the caller passes in whatever the status is).
Narrative(title, message, action) ==
    [title |-> title, message |-> message, action |-> action]

get_human_narrative(gate_type, gate_result) ==
    LET status == gate_result.status IN
    IF status = "PASS" \/ status = "SKIP"
    THEN Narrative("All Clear", "is within acceptable parameters", "No action required.")
    ELSE IF gate_type = "gate_1"
    THEN Narrative("Stale Data Alert", "has not updated", "Request refresh")
    ELSE IF gate_type = "gate_2"
    THEN IF /\ "reason" \in DOMAIN gate_result
            /\ gate_result.reason = "Value outside distribution range"
         THEN Narrative("Critical Volatility", "falls completely outside", "Investigate source data")
         ELSE Narrative("Volatility Alert", "deviates significantly", "Review recent changes")
    ELSE IF gate_type = "gate_3"
    THEN IF "severity" \in DOMAIN gate_result /\ gate_result.severity = "CRITICAL"
         THEN Narrative("CRITICAL: Logic Conflict", "has completely collapsed",
                        "Immediate reconciliation required")
         ELSE Narrative("Logic Conflict Detected", "have divergent views",
                        "Schedule alignment meeting")
    ELSE IF gate_type = "gate_4"
    THEN Narrative("Formula Integrity Breach", "has been modified unexpectedly",
                   "Review cell formula")
    ELSE Narrative("Unknown Alert", "triggered alert", "Contact system administrator.")

\* ------------------------------------------------------------------- state
VARIABLES
    now,                 \* the wall clock, in ticks
    manifest,            \* DREMonitor.manifest, fixed for the process lifetime
    sheet,               \* contents of the target workbook
    fileExists,          \* os.path.exists(target file)
    active_bypasses,     \* DREMonitor.active_bypasses: id -> bypass record
    current_assertions,  \* DREMonitor.current_assertions: the last report
    last_status,         \* DREMonitor.last_status
    total_checks,        \* DREMonitor.total_checks
    halt_count,          \* DREMonitor.halt_count
    last_check,          \* DREMonitor.last_check
    governance_state,    \* bridge.current_governance_state
    pc,                  \* position of every thread
    cyc,                 \* locals of the cycle a thread is running, and the
                         \* clock value it evaluated at
    lock,                \* DREWatcher._lock: "free" or the thread holding it
    cur_timer,           \* DREWatcher._timer: index of the last Timer, 0 = None
    tm,                  \* per Timer: its deadline, and whether a cycle was
                         \* running when it fired
    nEvents,             \* file events so far
    req,                 \* the override request the api thread is serving,
                         \* and the ledger as the request found it
    nReq,                \* override requests so far
    audit_log,           \* AuditLogger's file: the events appended so far
    manager,             \* bridge.manager: the connected websockets in the order
                         \* they connected, those whose peer is gone (a send
                         \* raises), what each client received last, and the
                         \* connections the last broadcast logged a send error for
    probe                \* a gate applied on its own: its inputs and result

vars == << now, manifest, sheet, fileExists, active_bypasses, current_assertions,
           last_status, total_checks, halt_count, last_check, governance_state,
           pc, cyc, lock, cur_timer, tm, nEvents, req, nReq, audit_log, probe,
           manager >>

TimerNames == << "t1", "t2", "t3", "t4", "t5" >>
TimerThread(i) == TimerNames[i]
TimerThreads == { TimerThread(i) : i \in 1..MaxEvents }
Threads == {"mon", "api"} \cup TimerThreads

CyclePcs == {"ingest", "commit", "publish"}
InCycle(t) == pc[t] \in CyclePcs

EmptyLedger == [id \in {} |-> None]
Never == 0 - 1

NoLocals == [report |-> <<>>, global_halt |-> FALSE, conflict_results |-> <<>>, at |-> 0]
NoTimer == [deadline |-> 0, busyAtFire |-> FALSE]
NoRequest == [batch |-> <<>>, timestamp |-> 0, before |-> EmptyLedger]

NoState == [status |-> "", assertions |-> <<>>, conflict_pair |-> None]
NoProbe == [gate |-> "none"]

\* The dashboards that may connect to /ws, and bridge.manager after
\* ConnectionManager.__init__
Subscribers == {"ui1", "ui2"}
NoConnections ==
    [active_connections |-> <<>>, broken |-> {},
     received |-> [ws \in Subscribers |-> NoState], failed |-> {}]

\* The state after DREMonitor.__init__ and DREWatcher.__init__, for a manifest
\* of the set ms
InitMonitorFrom(ms, start) ==
    /\ now = 0
    /\ manifest \in ms
    /\ sheet \in Sheets
    /\ fileExists = TRUE
    /\ active_bypasses = EmptyLedger
    /\ current_assertions = <<>>
    /\ last_status = "IDLE"
    /\ total_checks = 0
    /\ halt_count = 0
    /\ last_check = Never
    /\ governance_state = NoState
    /\ pc = [t \in Threads |-> IF t = "mon" THEN start
                               ELSE IF t = "api" THEN "idle" ELSE "unborn"]
    /\ cyc = [t \in Threads |-> NoLocals]
    /\ lock = "free"
    /\ cur_timer = 0
    /\ tm = [i \in 1..MaxEvents |-> NoTimer]
    /\ nEvents = 0
    /\ req = NoRequest
    /\ nReq = 0
    /\ audit_log = <<>>
    /\ manager = NoConnections

\* The monitor thread has registered the monitor with the bridge (run, line
\* 221) and is about to run its initial cycle.
InitMonitor(ms) == InitMonitorFrom(ms, "ingest")

InitOver(ms) == InitMonitor(ms) /\ probe = NoProbe

Init == InitOver(Manifests)

\* ------------------------------------------------------- evaluation cycle
\* ExcelIngestor.read_data: one entry per assertion of the manifest
read_data(m, sh) ==
    [id \in { m.assertions[i].id : i \in 1..Len(m.assertions) } |->
        [value |-> sh[id].value, formula_hash |-> _get_formula_hash(sh[id].formula)]]

IsSuppressed_never(ledger, id, t) == FALSE

IsSuppressed_through_expiry(ledger, id, t) ==
    /\ id \in DOMAIN ledger
    /\ t <= ledger[id].expiry

\* run_governance_cycle, lines 806-812: the bypass suppression layer
IsSuppressed(ledger, id, t) ==
    /\ id \in DOMAIN ledger
    /\ t < ledger[id].expiry

EvalAssertion_hides_suppressed(m, assertion, data, t, ledger) ==
    LET g1 == gate_1_freshness(assertion, t)
        g2 == gate_2_stability(assertion, m.stability_threshold, data[assertion.id].value)
        g4 == gate_4_structure(assertion.formula_hash, data[assertion.id].formula_hash)
        raw_halt == "HALT" \in {g1.status, g2.status, g4.status}
        is_suppressed == raw_halt /\ IsSuppressed(ledger, assertion.id, t)
        shown(status) == IF is_suppressed /\ status = "HALT" THEN "PASS" ELSE status
    IN [id |-> assertion.id,
        raw_halt |-> raw_halt,
        is_suppressed |-> is_suppressed,
        entry |-> [id |-> assertion.id,
                   gate_status |-> [freshness |-> shown(g1.status),
                                    stability |-> shown(g2.status),
                                    alignment |-> shown(g4.status)]]]

\* run_governance_cycle, lines 793-858: the body of the loop over assertions
EvalAssertion(m, assertion, data, t, ledger) ==
    LET g1 == gate_1_freshness(assertion, t)
        g2 == gate_2_stability(assertion, m.stability_threshold, data[assertion.id].value)
        g4 == gate_4_structure(assertion.formula_hash, data[assertion.id].formula_hash)
        raw_halt == "HALT" \in {g1.status, g2.status, g4.status}
        is_suppressed == raw_halt /\ IsSuppressed(ledger, assertion.id, t)
    IN [id |-> assertion.id,
        raw_halt |-> raw_halt,
        is_suppressed |-> is_suppressed,
        entry |-> [id |-> assertion.id,
                   gate_status |-> [freshness |-> g1.status,
                                    stability |-> g2.status,
                                    alignment |-> g4.status]]]

\* next((a for a in manifest.assertions if a.id == id), None), lines 864-865:
\* whether it finds one, and the first it finds
HasAssertion(m, id) == \E i \in 1..Len(m.assertions) : m.assertions[i].id = id

FindAssertion(m, id) ==
    LET hits == { i \in 1..Len(m.assertions) : m.assertions[i].id = id }
    IN m.assertions[CHOOSE i \in hits : \A j \in hits : i <= j]

\* run_governance_cycle, lines 860-894: Gate 3 over the configured pairs, in
\* the order of the list; a pair naming an unknown id is passed over
ConflictResults(m) ==
    LET g3(i) == gate_3_convergence(FindAssertion(m, m.conflict_pairs[i][1]),
                                    FindAssertion(m, m.conflict_pairs[i][2]),
                                    m.overlap_integral_cutoff)
                   @@ [pair |-> m.conflict_pairs[i]]
        R[i \in 0..Len(m.conflict_pairs)] ==
            IF i = 0 THEN <<>>
            ELSE IF /\ HasAssertion(m, m.conflict_pairs[i][1])
                    /\ HasAssertion(m, m.conflict_pairs[i][2])
                 THEN Append(R[i - 1], g3(i))
                 ELSE R[i - 1]
    IN R[Len(m.conflict_pairs)]

\* run_governance_cycle, lines 815-816 and 871-872: what sets global_halt
GlobalHalt(evals, conflicts) ==
    \/ \E i \in DOMAIN evals : evals[i].raw_halt /\ ~evals[i].is_suppressed
    \/ \E i \in DOMAIN conflicts : conflicts[i].status = "HALT"

\* AuditLogger.log_event: the entry it appends to the file
log_event(log, event_type, assertion_id, severity) ==
    Append(log, [event_type |-> event_type, assertion_id |-> assertion_id,
                 severity |-> severity])

HaltEvents_every_raw_halt(evals) ==
    LET E[i \in 0..Len(evals)] ==
            IF i = 0 THEN <<>>
            ELSE IF evals[i].raw_halt
                 THEN log_event(E[i - 1], "HALT", << evals[i].id >>, "CRITICAL")
                 ELSE E[i - 1]
    IN E[Len(evals)]

\* run_governance_cycle, lines 815-841: the HALT events of the loop over the
\* assertions, in the order they are written
HaltEvents(evals) ==
    LET E[i \in 0..Len(evals)] ==
            IF i = 0 THEN <<>>
            ELSE IF evals[i].raw_halt /\ ~evals[i].is_suppressed
                 THEN log_event(E[i - 1], "HALT", << evals[i].id >>, "CRITICAL")
                 ELSE E[i - 1]
    IN E[Len(evals)]

\* run_governance_cycle, lines 870-892: the GATE_3_CONFLICT events of the loop
\* over the pairs; the assertion id of the event names both ids of the pair
ConflictEvents(conflicts) ==
    LET E[i \in 0..Len(conflicts)] ==
            IF i = 0 THEN <<>>
            ELSE IF conflicts[i].status = "HALT"
                 THEN log_event(E[i - 1], "GATE_3_CONFLICT", conflicts[i].pair,
                                conflicts[i].severity)
                 ELSE E[i - 1]
    IN E[Len(conflicts)]

\* All events of one evaluation, in the order of the calls
CycleEvents(evals, conflicts) == HaltEvents(evals) \o ConflictEvents(conflicts)

\* run_governance_cycle, lines 793-858: the loop over the assertions
Evaluations(m, sh, t, ledger) ==
    [i \in 1..Len(m.assertions) |->
        EvalAssertion(m, m.assertions[i], read_data(m, sh), t, ledger)]

AfterCycle_lock_kept(t) ==
    /\ pc' = [pc EXCEPT ![t] = IF t = "mon" THEN "watching"
                               ELSE IF t = "api" THEN "accepted" ELSE "done"]
    /\ lock' = lock
    /\ cyc' = [cyc EXCEPT ![t] = NoLocals]

\* What a thread does when its cycle has returned: the watcher callback
\* leaves `with self._lock`, register_bypass returns to the endpoint, run()
\* goes on to start the observer.
AfterCycle(t) ==
    /\ pc' = [pc EXCEPT ![t] = IF t = "mon" THEN "watching"
                               ELSE IF t = "api" THEN "accepted" ELSE "done"]
    /\ lock' = IF lock = t THEN "free" ELSE lock
    /\ cyc' = [cyc EXCEPT ![t] = NoLocals]

CycleIngestFails_counted(t) ==
    /\ pc[t] = "ingest"
    /\ last_status' = "ERROR: read_data"
    /\ total_checks' = total_checks + 1
    /\ AfterCycle(t)
    /\ UNCHANGED << now, manifest, sheet, fileExists, active_bypasses, current_assertions,
                    halt_count, last_check, governance_state,
                    cur_timer, tm, nEvents, req, nReq, audit_log, probe, manager >>

\* lines 787 and 982-986: read_data raises (the file is gone, or still locked
\* after the retries); the cycle ends with an ERROR status
CycleIngestFails(t) ==
    /\ pc[t] = "ingest"
    /\ last_status' = "ERROR: read_data"
    /\ AfterCycle(t)
    /\ UNCHANGED << now, manifest, sheet, fileExists, active_bypasses, current_assertions,
                    total_checks, halt_count, last_check, governance_state,
                    cur_timer, tm, nEvents, req, nReq, audit_log, probe, manager >>

\* lines 787-894: the ingestion read succeeds; all gates, suppression and the
\* aggregate
CycleEvaluate(t) ==
    /\ pc[t] = "ingest"
    /\ fileExists
    /\ LET evals == Evaluations(manifest, sheet, now, active_bypasses)
           conflicts == ConflictResults(manifest)
       IN /\ cyc' = [cyc EXCEPT ![t] =
                       [report |-> [i \in DOMAIN evals |-> evals[i].entry],
                        global_halt |-> GlobalHalt(evals, conflicts),
                        conflict_results |-> conflicts,
                        at |-> now]]
          /\ audit_log' = audit_log \o CycleEvents(evals, conflicts)
    /\ pc' = [pc EXCEPT ![t] = "commit"]
    /\ UNCHANGED << now, manifest, sheet, fileExists, active_bypasses, current_assertions,
                    last_status, total_checks, halt_count, last_check, governance_state,
                    lock, cur_timer, tm, nEvents, req, nReq, probe, manager >>

\* lines 828/878 and 982-986: the read succeeds, and the k-th log_event of the
\* evaluation raises (the audit file cannot be opened or written); the events
\* before it are in the file, and the exception ends the cycle
CycleAuditFails(t) ==
    /\ pc[t] = "ingest"
    /\ fileExists
    /\ LET events == CycleEvents(Evaluations(manifest, sheet, now, active_bypasses),
                                 ConflictResults(manifest))
       IN \E k \in 1..Len(events) : audit_log' = audit_log \o SubSeq(events, 1, k - 1)
    /\ last_status' = "ERROR: log_event"
    /\ AfterCycle(t)
    /\ UNCHANGED << now, manifest, sheet, fileExists, active_bypasses, current_assertions,
                    total_checks, halt_count, last_check, governance_state,
                    cur_timer, tm, nEvents, req, nReq, probe, manager >>

CycleCommit_halt_counted_always(t) ==
    /\ pc[t] = "commit"
    /\ last_check' = now
    /\ total_checks' = total_checks + 1
    /\ last_status' = IF cyc[t].global_halt THEN "HALT" ELSE "PASS"
    /\ halt_count' = halt_count + 1
    /\ current_assertions' = cyc[t].report
    /\ pc' = [pc EXCEPT ![t] = "publish"]
    /\ UNCHANGED << now, manifest, sheet, fileExists, active_bypasses, governance_state,
                    cyc, lock, cur_timer, tm, nEvents, req, nReq, audit_log, probe, manager >>

\* lines 896-902: the state update
CycleCommit(t) ==
    /\ pc[t] = "commit"
    /\ last_check' = now
    /\ total_checks' = total_checks + 1
    /\ last_status' = IF cyc[t].global_halt THEN "HALT" ELSE "PASS"
    /\ halt_count' = IF cyc[t].global_halt THEN halt_count + 1 ELSE halt_count
    /\ current_assertions' = cyc[t].report
    /\ pc' = [pc EXCEPT ![t] = "publish"]
    /\ UNCHANGED << now, manifest, sheet, fileExists, active_bypasses, governance_state,
                    cyc, lock, cur_timer, tm, nEvents, req, nReq, audit_log, probe, manager >>

Connected(mgr) == { mgr.active_connections[i] : i \in DOMAIN mgr.active_connections }

broadcast_stops_at_failure(mgr, message) ==
    LET conns == mgr.active_connections
        before == { i \in DOMAIN conns : \A j \in 1..i : conns[j] \notin mgr.broken }
        first == { i \in DOMAIN conns : i - 1 \in before \cup {0} /\ conns[i] \in mgr.broken }
    IN [mgr EXCEPT
          !.received = [ws \in Subscribers |->
                           IF ws \in { conns[i] : i \in before } THEN message
                           ELSE mgr.received[ws]],
          !.failed = { conns[i] : i \in first }]

\* ConnectionManager.broadcast (bridge.py:119-126): send_json to every
\* connection of the list in turn; a send that raises is logged and the loop
\* goes on with the next connection
broadcast(mgr, message) ==
    [mgr EXCEPT
       !.received = [ws \in Subscribers |->
                        IF ws \in Connected(mgr) \ mgr.broken THEN message
                        ELSE mgr.received[ws]],
       !.failed = Connected(mgr) \cap mgr.broken]

\* Lines 896-902 statement by statement, for cycles that run on two threads
\* at once.  `self.total_checks += 1` and `self.halt_count += 1` each load
\* the attribute, add, and store; another thread may run in between.
\* Line 897, and the load of line 898:
CommitLoadTotal(t) ==
    /\ pc[t] = "commit"
    /\ last_check' = now
    /\ cyc' = [cyc EXCEPT ![t] = [loaded |-> total_checks] @@ @]
    /\ pc' = [pc EXCEPT ![t] = "store_total"]
    /\ UNCHANGED << now, manifest, sheet, fileExists, active_bypasses, current_assertions,
                    last_status, total_checks, halt_count, governance_state,
                    lock, cur_timer, tm, nEvents, req, nReq, audit_log, probe, manager >>

\* the store of line 898, line 899, and the load of line 901
CommitStoreTotal(t) ==
    /\ pc[t] = "store_total"
    /\ total_checks' = cyc[t].loaded + 1
    /\ last_status' = IF cyc[t].global_halt THEN "HALT" ELSE "PASS"
    /\ cyc' = [cyc EXCEPT ![t].loaded = halt_count]
    /\ pc' = [pc EXCEPT ![t] = "store_halt"]
    /\ UNCHANGED << now, manifest, sheet, fileExists, active_bypasses, current_assertions,
                    halt_count, last_check, governance_state,
                    lock, cur_timer, tm, nEvents, req, nReq, audit_log, probe, manager >>

\* the store of line 901 and line 902
CommitStoreHalt(t) ==
    /\ pc[t] = "store_halt"
    /\ halt_count' = IF cyc[t].global_halt THEN cyc[t].loaded + 1 ELSE halt_count
    /\ current_assertions' = cyc[t].report
    /\ pc' = [pc EXCEPT ![t] = "publish"]
    /\ UNCHANGED << now, manifest, sheet, fileExists, active_bypasses, last_status,
                    total_checks, last_check, governance_state, cyc,
                    lock, cur_timer, tm, nEvents, req, nReq, audit_log, probe, manager >>

\* lines 908-915: the state the cycle pushes
PushedState(t) ==
    [status |-> last_status,
     assertions |-> cyc[t].report,
     conflict_pair |-> IF cyc[t].conflict_results = <<>> THEN None
                       ELSE cyc[t].conflict_results[1]]

\* lines 906-937: the push to the bridge; then the cycle returns
CyclePublish(t) ==
    /\ pc[t] = "publish"
    /\ governance_state' = PushedState(t)
    /\ manager' = IF manager.active_connections # <<>>
                  THEN broadcast(manager, PushedState(t))
                  ELSE manager
    /\ AfterCycle(t)
    /\ UNCHANGED << now, manifest, sheet, fileExists, active_bypasses, current_assertions,
                    last_status, total_checks, halt_count, last_check,
                    cur_timer, tm, nEvents, req, nReq, audit_log, probe >>

\* lines 906-937 when the push raises (the import, the event loop): the
\* handler of line 936 logs it and the cycle returns; the shared state was
\* assigned at line 918 or was not, and nothing was sent
CyclePublishFails(t) ==
    /\ pc[t] = "publish"
    /\ governance_state' \in {governance_state, PushedState(t)}
    /\ AfterCycle(t)
    /\ UNCHANGED << now, manifest, sheet, fileExists, active_bypasses, current_assertions,
                    last_status, total_checks, halt_count, last_check,
                    cur_timer, tm, nEvents, req, nReq, audit_log, probe, manager >>

\* ------------------------------------------------------------- subscribers
\* websocket_endpoint -> ConnectionManager.connect (bridge.py:110-113)
Connect(ws) ==
    /\ ws \notin Connected(manager)
    /\ manager' = [manager EXCEPT !.active_connections = Append(@, ws)]
    /\ UNCHANGED << now, manifest, sheet, fileExists, active_bypasses, current_assertions,
                    last_status, total_checks, halt_count, last_check, governance_state,
                    pc, cyc, lock, cur_timer, tm, nEvents, req, nReq, audit_log, probe >>

\* The peer of a connection goes away: from now on send_json on it raises
Break(ws) ==
    /\ ws \in Connected(manager)
    /\ ws \notin manager.broken
    /\ manager' = [manager EXCEPT !.broken = @ \cup {ws}]
    /\ UNCHANGED << now, manifest, sheet, fileExists, active_bypasses, current_assertions,
                    last_status, total_checks, halt_count, last_check, governance_state,
                    pc, cyc, lock, cur_timer, tm, nEvents, req, nReq, audit_log, probe >>

\* -------------------------------------------------------- trigger pipeline
\* threading.Timer.cancel as on_modified uses it (lines 32-33): a Timer that
\* has not fired yet never will; one that has fired is not affected
CancelTimer_forgotten(p, cur) == p

CancelTimer(p, cur) ==
    IF cur # 0 /\ p[TimerThread(cur)] = "armed"
    THEN [p EXCEPT ![TimerThread(cur)] = "cancelled"]
    ELSE p

\* DREWatcher.on_modified for an event on the target file (lines 31-37)
on_modified(p, cur, n) ==
    [CancelTimer(p, cur) EXCEPT ![TimerThread(n)] = "armed"]

\* The target file is saved.  Once run() has started the observer (the
\* initial cycle is over) the save reaches on_modified.
FileModified(sh) ==
    /\ nEvents < MaxEvents
    /\ nEvents' = nEvents + 1
    /\ sheet' = sh
    /\ fileExists' = TRUE
    /\ IF pc["mon"] = "watching"
       THEN /\ pc' = on_modified(pc, cur_timer, nEvents + 1)
            /\ cur_timer' = nEvents + 1
            /\ tm' = [tm EXCEPT ![nEvents + 1].deadline = now + DebounceTicks]
       ELSE UNCHANGED << pc, cur_timer, tm >>
    /\ UNCHANGED << now, manifest, active_bypasses, current_assertions, last_status,
                    total_checks, halt_count, last_check, governance_state, cyc, lock,
                    req, nReq, audit_log, probe, manager >>

\* A path is the sequence of its components; an event of the observer carries
\* a path and whether it is for a directory.  os.path.abspath puts the working
\* directory in front of a relative path.
Component(name) == << name >>
Cwd == << Component("/"), Component("project") >>
abspath(path) == IF path # <<>> /\ path[1] = Component("/") THEN path ELSE Cwd \o path

\* `"~$" in event.src_path` and `"audit_log.jsonl" in event.src_path`: a
\* component of a path is a sequence of tokens
Contains(path, token) ==
    \E i \in DOMAIN path : \E j \in DOMAIN path[i] : path[i][j] = token

TargetFile == Cwd \o << Component("model.xlsx") >>
TargetRelative == << Component("model.xlsx") >>

Event(src_path, is_directory) == [src_path |-> src_path, is_directory |-> is_directory]

\* The events the observer of the manifest directory may deliver.
Events ==
    { Event(TargetFile, FALSE),
      Event(TargetRelative, FALSE),
      Event(TargetFile, TRUE),
      Event(Cwd, TRUE),
      Event(Cwd \o << << "~$", "model.xlsx" >> >>, FALSE),
      Event(Cwd \o << Component("audit_log.jsonl") >>, FALSE),
      Event(Cwd \o << Component("other.xlsx") >>, FALSE),
      Event(<< Component("/"), Component("elsewhere"), Component("model.xlsx") >>, FALSE) }

Triggers_any_file(event, target_file) ==
    /\ ~event.is_directory
    /\ ~Contains(event.src_path, "~$")
    /\ ~Contains(event.src_path, "audit_log.jsonl")

\* DREWatcher.on_modified, lines 26-31: whether the event gets past the
\* filter and is for the target file
Triggers(event, target_file) ==
    /\ ~event.is_directory
    /\ ~Contains(event.src_path, "~$")
    /\ ~Contains(event.src_path, "audit_log.jsonl")
    /\ abspath(event.src_path) = target_file

\* The observer delivers a modification event that leaves the content of the
\* target file as it is (a save without a change, or another path of the
\* watched directory): on_modified, lines 24-37.
WatchEvent(event) ==
    /\ nEvents < MaxEvents
    /\ nEvents' = nEvents + 1
    /\ IF pc["mon"] = "watching" /\ Triggers(event, abspath(TargetFile))
       THEN /\ pc' = on_modified(pc, cur_timer, nEvents + 1)
            /\ cur_timer' = nEvents + 1
            /\ tm' = [tm EXCEPT ![nEvents + 1].deadline = now + DebounceTicks]
       ELSE UNCHANGED << pc, cur_timer, tm >>
    /\ UNCHANGED << now, manifest, sheet, fileExists, active_bypasses, current_assertions,
                    last_status, total_checks, halt_count, last_check, governance_state,
                    cyc, lock, req, nReq, audit_log, probe, manager >>

\* The target file is removed; no handler of the watcher reacts to that.
FileDeleted ==
    /\ fileExists
    /\ fileExists' = FALSE
    /\ UNCHANGED << now, manifest, sheet, active_bypasses, current_assertions, last_status,
                    total_checks, halt_count, last_check, governance_state, pc, cyc, lock,
                    cur_timer, tm, nEvents, req, nReq, audit_log, probe, manager >>

Locked_always(l) == TRUE

\* self._lock.locked(), line 44
Locked(l) == l # "free"

\* The Timer's interval has passed: _safe_callback starts and tests the lock
\* (lines 44-46)
TimerFire(i) ==
    /\ pc[TimerThread(i)] = "armed"
    /\ now >= tm[i].deadline
    /\ pc' = [pc EXCEPT ![TimerThread(i)] = IF Locked(lock) THEN "dropped" ELSE "acquire"]
    /\ tm' = [tm EXCEPT ![i].busyAtFire = \E t \in Threads : InCycle(t)]
    /\ UNCHANGED << now, manifest, sheet, fileExists, active_bypasses, current_assertions,
                    last_status, total_checks, halt_count, last_check, governance_state,
                    cyc, lock, cur_timer, nEvents, req, nReq, audit_log, probe, manager >>

\* `with self._lock:` is entered (blocking acquire, line 48), the file is
\* tested (line 50) and the callback, run_governance_cycle, is called; a
\* vanished file leaves the `with` at once
TimerEnter(i) ==
    /\ pc[TimerThread(i)] = "acquire"
    /\ lock = "free"
    /\ IF fileExists
       THEN /\ lock' = TimerThread(i)
            /\ pc' = [pc EXCEPT ![TimerThread(i)] = "ingest"]
       ELSE /\ pc' = [pc EXCEPT ![TimerThread(i)] = "vanished"]
            /\ UNCHANGED lock
    /\ UNCHANGED << now, manifest, sheet, fileExists, active_bypasses, current_assertions,
                    last_status, total_checks, halt_count, last_check, governance_state,
                    cyc, cur_timer, tm, nEvents, req, nReq, audit_log, probe, manager >>

\* Time passes; a Timer whose interval is over fires (or is cancelled) first.
Tick ==
    /\ now < MaxTime
    /\ \A i \in 1..MaxEvents : pc[TimerThread(i)] = "armed" => tm[i].deadline > now
    /\ now' = now + 1
    /\ UNCHANGED << manifest, sheet, fileExists, active_bypasses, current_assertions,
                    last_status, total_checks, halt_count, last_check, governance_state,
                    pc, cyc, lock, cur_timer, tm, nEvents, req, nReq, audit_log, probe, manager >>

\* ------------------------------------------------------------ bypass ledger
\* The timestamp of a request is the client's: a malformed one, or the
\* client's clock, which may lag the monitor's by a tick.
BadTimestamp == 0 - 9
Timestamps(t) == {t - 1, t}
Justifications == {"j1"}
Batches == { <<>>, <<"a1">>, <<"a2">>, <<"a1", "a2">>, <<"a1", UnknownId>> }

\* register_bypass, lines 169-179: the search for one id in the report
\* (assertion_found) and the entry the search stops at
assertion_found(report, id) == \E i \in 1..Len(report) : report[i].id = id

ReportEntry(report, id) ==
    LET hits == { i \in 1..Len(report) : report[i].id = id }
    IN report[CHOOSE i \in hits : \A j \in hits : i <= j]

\* register_bypass, line 177: is_halted
IsHalted(entry) ==
    "HALT" \in { entry.gate_status.freshness, entry.gate_status.stability,
                 entry.gate_status.alignment }

Validate_first_id_only(report, batch) ==
    IF batch = <<>> THEN <<"ok">>
    ELSE IF ~assertion_found(report, batch[1]) THEN <<"not found", batch[1]>>
    ELSE IF ~IsHalted(ReportEntry(report, batch[1])) THEN <<"not in HALT", batch[1]>>
    ELSE <<"ok">>

\* register_bypass, lines 167-185: the first id of the batch that is rejected,
\* with the reason; <<"ok">> when none is
Validate(report, batch) ==
    LET bad == { k \in 1..Len(batch) :
                    \/ ~assertion_found(report, batch[k])
                    \/ ~IsHalted(ReportEntry(report, batch[k])) }
    IN IF bad = {} THEN <<"ok">>
       ELSE LET k == CHOOSE x \in bad : \A y \in bad : x <= y
            IN IF ~assertion_found(report, batch[k])
               THEN <<"not found", batch[k]>>
               ELSE <<"not in HALT", batch[k]>>

BypassRecord_no_ttl(justification, timestamp) ==
    [justification |-> justification, signature |-> "signer", signature_hash |-> "hash",
     timestamp |-> timestamp, expiry |-> timestamp]

\* register_bypass, lines 187-198: the record every id of the batch gets
BypassRecord(justification, timestamp) ==
    [justification |-> justification, signature |-> "signer", signature_hash |-> "hash",
     timestamp |-> timestamp, expiry |-> timestamp + TtlTicks]

WriteBypasses_fresh_ledger(ledger, batch, rec) ==
    [id \in { batch[k] : k \in 1..Len(batch) } |-> rec]

\* register_bypass, lines 191-198: the writes
WriteBypasses(ledger, batch, rec) ==
    LET ids == { batch[k] : k \in 1..Len(batch) }
    IN [id \in DOMAIN ledger \cup ids |-> IF id \in ids THEN rec ELSE ledger[id]]

\* DREMonitor.register_bypass as POST /override calls it (bridge.py:190-205):
\* validation, the expiry (datetime.fromisoformat raises ValueError on a
\* malformed timestamp), the writes; the cycle of line 203 follows as the api
\* thread's next steps.  A ValueError takes the endpoint to its 400 answer.
register_bypass(batch, justification, timestamp) ==
    /\ pc["api"] = "idle"
    /\ pc["mon"] # "starting"
    /\ nReq < MaxRequests
    /\ nReq' = nReq + 1
    /\ req' = [batch |-> batch, timestamp |-> timestamp, before |-> active_bypasses]
    /\ IF Validate(current_assertions, batch) = <<"ok">> /\ timestamp # BadTimestamp
       THEN /\ active_bypasses' =
                  WriteBypasses(active_bypasses, batch, BypassRecord(justification, timestamp))
            /\ pc' = [pc EXCEPT !["api"] = "ingest"]
       ELSE /\ pc' = [pc EXCEPT !["api"] = "rejected"]
            /\ UNCHANGED active_bypasses
    /\ UNCHANGED << now, manifest, sheet, fileExists, current_assertions, last_status,
                    total_checks, halt_count, last_check, governance_state, cyc, lock,
                    cur_timer, tm, nEvents, audit_log, probe, manager >>

\* DREMonitor.run, lines 219-221: the monitor thread registers the monitor
\* with the bridge; its initial cycle follows.
RegisterMonitor ==
    /\ pc["mon"] = "starting"
    /\ pc' = [pc EXCEPT !["mon"] = "ingest"]
    /\ UNCHANGED << now, manifest, sheet, fileExists, active_bypasses, current_assertions,
                    last_status, total_checks, halt_count, last_check, governance_state,
                    cyc, lock, cur_timer, tm, nEvents, req, nReq, audit_log, probe, manager >>

\* submit_override, bridge.py:179-186: a request that arrives before the
\* monitor is registered gets the 503 answer
OverrideUnavailable(batch, justification, timestamp) ==
    /\ pc["api"] = "idle"
    /\ pc["mon"] = "starting"
    /\ nReq < MaxRequests
    /\ nReq' = nReq + 1
    /\ req' = [batch |-> batch, timestamp |-> timestamp, before |-> active_bypasses]
    /\ pc' = [pc EXCEPT !["api"] = "unavailable"]
    /\ UNCHANGED << now, manifest, sheet, fileExists, active_bypasses, current_assertions,
                    last_status, total_checks, halt_count, last_check, governance_state,
                    cyc, lock, cur_timer, tm, nEvents, audit_log, probe, manager >>

OverrideEvents_first_id(log, batch) ==
    IF batch = <<>> THEN log
    ELSE log_event(log, "OVERRIDE_REQUEST", << batch[1] >>, "WARN")

\* submit_override, bridge.py:211-225: one OVERRIDE_REQUEST event for every id
\* of an accepted request
OverrideEvents(log, batch) ==
    LET E[i \in 0..Len(batch)] ==
            IF i = 0 THEN log
            ELSE log_event(E[i - 1], "OVERRIDE_REQUEST", << batch[i] >>, "WARN")
    IN E[Len(batch)]

\* submit_override answers (bridge.py:198-231) and the api thread is free again
ApiRespond ==
    /\ pc["api"] \in {"accepted", "rejected", "unavailable"}
    /\ pc' = [pc EXCEPT !["api"] = "idle"]
    /\ req' = NoRequest
    /\ audit_log' = IF pc["api"] = "accepted" THEN OverrideEvents(audit_log, req.batch)
                    ELSE audit_log
    /\ UNCHANGED << now, manifest, sheet, fileExists, active_bypasses, current_assertions,
                    last_status, total_checks, halt_count, last_check, governance_state,
                    cyc, lock, cur_timer, tm, nEvents, nReq, probe, manager >>

\* ------------------------------------------------------------ specification
Next ==
    \/ \E t \in Threads : CycleIngestFails(t)
    \/ \E t \in Threads : CycleAuditFails(t)
    \/ \E t \in Threads : CycleEvaluate(t)
    \/ \E t \in Threads : CycleCommit(t)
    \/ \E t \in Threads : CyclePublish(t)
    \/ \E t \in Threads : CyclePublishFails(t)
    \/ \E ws \in Subscribers : Connect(ws)
    \/ \E ws \in Subscribers : Break(ws)
    \/ \E sh \in Sheets : FileModified(sh)
    \/ \E event \in Events : WatchEvent(event)
    \/ FileDeleted
    \/ \E i \in 1..MaxEvents : TimerFire(i)
    \/ \E i \in 1..MaxEvents : TimerEnter(i)
    \/ Tick
    \/ \E batch \in Batches, j \in Justifications, ts \in Timestamps(now) \cup {BadTimestamp} :
          register_bypass(batch, j, ts)
    \/ ApiRespond

Spec == Init /\ [][Next]_vars

\* The watcher alone: no override request arrives.
NextWatcher ==
    \/ \E t \in Threads : CycleIngestFails(t)
    \/ \E t \in Threads : CycleEvaluate(t)
    \/ \E t \in Threads : CycleCommit(t)
    \/ \E t \in Threads : CyclePublish(t)
    \/ \E sh \in Sheets : FileModified(sh)
    \/ FileDeleted
    \/ \E i \in 1..MaxEvents : TimerFire(i)
    \/ \E i \in 1..MaxEvents : TimerEnter(i)
    \/ Tick

SpecWatcher == Init /\ [][NextWatcher]_vars

\* The watcher under fair scheduling.  A thread that is inside a cycle goes
\* on (the read and the gates return); a Timer whose interval is over runs
\* its function (threading.Timer); a callback waiting at `with self._lock`
\* gets the lock once it is free.  Nothing is assumed about file events or
\* about the clock.
CycleStep(t) ==
    \/ CycleIngestFails(t)
    \/ CycleEvaluate(t)
    \/ CycleCommit(t)
    \/ CyclePublish(t)

Fairness ==
    /\ \A t \in Threads : WF_vars(CycleStep(t))
    /\ \A i \in 1..MaxEvents : WF_vars(TimerFire(i))
    /\ \A i \in 1..MaxEvents : WF_vars(TimerEnter(i))

SpecWatcherFair == Init /\ [][NextWatcher]_vars /\ Fairness

\* The watcher with every kind of event the observer delivers.
NextEvents ==
    \/ \E t \in Threads : CycleIngestFails(t)
    \/ \E t \in Threads : CycleEvaluate(t)
    \/ \E t \in Threads : CycleCommit(t)
    \/ \E t \in Threads : CyclePublish(t)
    \/ \E sh \in Sheets : FileModified(sh)
    \/ \E event \in Events : WatchEvent(event)
    \/ FileDeleted
    \/ \E i \in 1..MaxEvents : TimerFire(i)
    \/ \E i \in 1..MaxEvents : TimerEnter(i)
    \/ Tick

SpecEvents == Init /\ [][NextEvents]_vars

\* The watcher and the override endpoint together; every request names a1
\* and is stamped with the current clock.
NextOverride ==
    \/ \E t \in Threads : CycleIngestFails(t)
    \/ \E t \in Threads : CycleEvaluate(t)
    \/ \E t \in Threads : CycleCommit(t)
    \/ \E t \in Threads : CyclePublish(t)
    \/ \E sh \in Sheets : FileModified(sh)
    \/ FileDeleted
    \/ \E i \in 1..MaxEvents : TimerFire(i)
    \/ \E i \in 1..MaxEvents : TimerEnter(i)
    \/ Tick
    \/ register_bypass(<<"a1">>, "j1", now)
    \/ ApiRespond

SpecOverride == Init /\ [][NextOverride]_vars

\* The watcher and the override endpoint with the state update of a cycle
\* taken statement by statement.
NextRace ==
    \/ \E t \in Threads : CycleEvaluate(t)
    \/ \E t \in Threads : CommitLoadTotal(t)
    \/ \E t \in Threads : CommitStoreTotal(t)
    \/ \E t \in Threads : CommitStoreHalt(t)
    \/ \E t \in Threads : CyclePublish(t)
    \/ \E sh \in Sheets : FileModified(sh)
    \/ \E i \in 1..MaxEvents : TimerFire(i)
    \/ \E i \in 1..MaxEvents : TimerEnter(i)
    \/ Tick
    \/ register_bypass(<<"a1">>, "j1", now)
    \/ ApiRespond

SpecRace == InitOver({ ManifestWith(Pert(0, 2, 4)) }) /\ [][NextRace]_vars

\* The bypass ledger and the cycles it triggers: the target file is left alone.
NextLedger ==
    \/ \E t \in Threads : CycleIngestFails(t)
    \/ \E t \in Threads : CycleEvaluate(t)
    \/ \E t \in Threads : CycleCommit(t)
    \/ \E t \in Threads : CyclePublish(t)
    \/ Tick
    \/ \E batch \in Batches, j \in Justifications, ts \in Timestamps(now) \cup {BadTimestamp} :
          register_bypass(batch, j, ts)
    \/ ApiRespond

SpecLedger == Init /\ [][NextLedger]_vars

\* The ledger from the start of the process: the server may take requests
\* before the monitor thread has registered the monitor (main.py:56-92).
NextStartup ==
    \/ RegisterMonitor
    \/ \E t \in Threads : CycleIngestFails(t)
    \/ \E t \in Threads : CycleEvaluate(t)
    \/ \E t \in Threads : CycleCommit(t)
    \/ \E t \in Threads : CyclePublish(t)
    \/ Tick
    \/ \E batch \in Batches, j \in Justifications, ts \in Timestamps(now) \cup {BadTimestamp} :
          \/ OverrideUnavailable(batch, j, ts)
          \/ register_bypass(batch, j, ts)
    \/ ApiRespond

SpecStartup ==
    /\ InitMonitorFrom(Manifests, "starting")
    /\ probe = NoProbe
    /\ [][NextStartup]_vars

\* The ledger with requests that carry any timestamp the sender likes: the
\* endpoint takes request.timestamp as it comes (bridge.py:137-142, 190-197).
AnyTimestamps(t) == {t - 1, t, t + 1}

NextStamped ==
    \/ \E t \in Threads : CycleIngestFails(t)
    \/ \E t \in Threads : CycleEvaluate(t)
    \/ \E t \in Threads : CycleCommit(t)
    \/ \E t \in Threads : CyclePublish(t)
    \/ Tick
    \/ \E batch \in Batches, j \in Justifications, ts \in AnyTimestamps(now) :
          register_bypass(batch, j, ts)
    \/ ApiRespond

SpecStamped == Init /\ [][NextStamped]_vars

\* The watcher with an audit file that may refuse a write, and with a
\* manifest whose second assertion may be a point distribution.
PointManifest == ManifestWith(Pert(7, 7, 7))

NextFaults ==
    \/ \E t \in Threads : CycleIngestFails(t)
    \/ \E t \in Threads : CycleAuditFails(t)
    \/ \E t \in Threads : CycleEvaluate(t)
    \/ \E t \in Threads : CycleCommit(t)
    \/ \E t \in Threads : CyclePublish(t)
    \/ \E sh \in Sheets : FileModified(sh)
    \/ FileDeleted
    \/ \E i \in 1..MaxEvents : TimerFire(i)
    \/ \E i \in 1..MaxEvents : TimerEnter(i)
    \/ Tick

SpecFaults == InitOver(Manifests \cup {PointManifest}) /\ [][NextFaults]_vars

\* The watcher with dashboards connected: no override requests.
NextPublish ==
    \/ \E t \in Threads : CycleIngestFails(t)
    \/ \E t \in Threads : CycleEvaluate(t)
    \/ \E t \in Threads : CycleCommit(t)
    \/ \E t \in Threads : CyclePublish(t)
    \/ \E t \in Threads : CyclePublishFails(t)
    \/ \E ws \in Subscribers : Connect(ws)
    \/ \E ws \in Subscribers : Break(ws)
    \/ \E sh \in Sheets : FileModified(sh)
    \/ FileDeleted
    \/ \E i \in 1..MaxEvents : TimerFire(i)
    \/ \E i \in 1..MaxEvents : TimerEnter(i)
    \/ Tick

SpecPublish == InitOver(Manifests) /\ [][NextPublish]_vars

\* ------------------------------------------------------- gates on their own
\* Gate 1 and Gate 2 called directly, as cli.py:955-965 and main.py:144-147 do:
\* the inputs are drawn at the start, one step applies the gate.
MaxAge == 6
MaxSla == 2
Offsets == {0 - 1, 0, 1}
Walls == (0 - MaxAge)..(MaxTime + 2)
DateTimes ==
    { Naive(w) : w \in Walls } \cup { Aware(w, o) : w \in Walls, o \in Offsets }

NoResult == [status |-> "not called"]

FreshnessProbes ==
    { [gate |-> "gate_1", applied |-> FALSE,
       assertion |-> Assertion("p", None, dt, sla, Pert(0, 2, 4)),
       at |-> t, result |-> NoResult] :
      dt \in DateTimes, sla \in 0..MaxSla, t \in 0..MaxTime }

ExampleDist == Pert(800, 1000, 1200)
ExampleValues == {799, 800, 1000, 1195, 1200, 1201}
SmallDists == { Pert(0, 2, 4), Pert(0, 0, 4), Pert(0, 4, 4), Pert(0, 1, 4), Pert(3, 3, 3) }
SmallValues == (0 - 1)..5
Thresholds == {0, 15, 100, 150}

StabilityProbe(dist, value, threshold) ==
    [gate |-> "gate_2", applied |-> FALSE,
     assertion |-> Assertion("p", None, Naive(0), 0, dist),
     threshold |-> threshold, current_value |-> value, result |-> NoResult]

StabilityProbes ==
    { StabilityProbe(d, v, th) :
        d \in SmallDists, v \in {NoValue} \cup { Num(n) : n \in SmallValues },
        th \in Thresholds }
    \cup
    { StabilityProbe(ExampleDist, v, th) :
        v \in {NoValue} \cup { Num(n) : n \in ExampleValues }, th \in Thresholds }

InitGates ==
    /\ InitMonitor({ ManifestWith(Pert(0, 2, 4)) })
    /\ probe \in FreshnessProbes \cup StabilityProbes

ApplyGate1 ==
    /\ probe.gate = "gate_1"
    /\ ~probe.applied
    /\ probe' = [probe EXCEPT !.applied = TRUE,
                              !.result = gate_1_freshness(probe.assertion, probe.at)]
    /\ UNCHANGED << now, manifest, sheet, fileExists, active_bypasses, current_assertions,
                    last_status, total_checks, halt_count, last_check, governance_state,
                    pc, cyc, lock, cur_timer, tm, nEvents, req, nReq, audit_log, manager >>

ApplyGate2 ==
    /\ probe.gate = "gate_2"
    /\ ~probe.applied
    /\ probe' = [probe EXCEPT !.applied = TRUE,
                              !.result = gate_2_stability(probe.assertion, probe.threshold,
                                                          probe.current_value)]
    /\ UNCHANGED << now, manifest, sheet, fileExists, active_bypasses, current_assertions,
                    last_status, total_checks, halt_count, last_check, governance_state,
                    pc, cyc, lock, cur_timer, tm, nEvents, req, nReq, audit_log, manager >>

NextGates == ApplyGate1 \/ ApplyGate2

SpecGates == InitGates /\ [][NextGates]_vars

\* ------------------------------------------------ the other calls on their own
\* Gate 3 on a pair, as monitor.py:868 calls it, once in the order the pair is
\* listed and once in the other order; the engine's overlap_cutoff is the
\* manifest's overlap_integral_cutoff (brain.py:28), in thousandths.
PairDists ==
    { Pert(0, 2, 4), Pert(0, 0, 4), Pert(2, 4, 6), Pert(4, 6, 8), Pert(6, 7, 8),
      Pert(3, 3, 3), Pert(7, 7, 7), Pert(9, 9, 9) }
Cutoffs == {0, 5, 10, 50, 1000}

ConvergenceProbes ==
    { [gate |-> "gate_3", applied |-> FALSE,
       assertion1 |-> Assertion("p1", None, Naive(0), 0, d1),
       assertion2 |-> Assertion("p2", None, Naive(0), 0, d2),
       cutoff |-> c, result |-> NoResult, swapped |-> NoResult] :
      d1 \in PairDists, d2 \in PairDists, c \in Cutoffs }

ApplyGate3 ==
    /\ probe.gate = "gate_3"
    /\ ~probe.applied
    /\ probe' = [probe EXCEPT
                    !.applied = TRUE,
                    !.result = gate_3_convergence(probe.assertion1, probe.assertion2,
                                                  probe.cutoff),
                    !.swapped = gate_3_convergence(probe.assertion2, probe.assertion1,
                                                   probe.cutoff)]
    /\ UNCHANGED << now, manifest, sheet, fileExists, active_bypasses, current_assertions,
                    last_status, total_checks, halt_count, last_check, governance_state,
                    pc, cyc, lock, cur_timer, tm, nEvents, req, nReq, audit_log, manager >>

\* Gate 4 on a stored fingerprint (binding.formula_hash, None when the
\* manifest gives none) and the fingerprint the ingestor computes from the
\* formula of the cell; "absent" is a caller that has no current fingerprint.
Formulas == { None, <<>>, <<"7">>, FormulaA, FormulaB }
StoredHashes == { None, StaticValue, _get_formula_hash(FormulaA), _get_formula_hash(FormulaB) }
AbsentCell == [kind |-> "absent", formula |-> None]
ReadCell(formula) == [kind |-> "cell", formula |-> formula]

StructureProbes ==
    { [gate |-> "gate_4", applied |-> FALSE, stored_hash |-> h, cell |-> c,
       current_hash |-> None, result |-> NoResult] :
      h \in StoredHashes, c \in {AbsentCell} \cup { ReadCell(f) : f \in Formulas } }

ApplyGate4 ==
    /\ probe.gate = "gate_4"
    /\ ~probe.applied
    /\ LET current_hash == IF probe.cell.kind = "absent" THEN None
                           ELSE _get_formula_hash(probe.cell.formula)
       IN probe' = [probe EXCEPT
                       !.applied = TRUE,
                       !.current_hash = current_hash,
                       !.result = gate_4_structure(probe.stored_hash, current_hash)]
    /\ UNCHANGED << now, manifest, sheet, fileExists, active_bypasses, current_assertions,
                    last_status, total_checks, halt_count, last_check, governance_state,
                    pc, cyc, lock, cur_timer, tm, nEvents, req, nReq, audit_log, manager >>

\* The narrative translation of a gate result, for results the gates return.
ProbeAssertion(updated, dist) == Assertion("p", None, updated, 1, dist)

GateResults ==
    [gate_1 |-> { gate_1_freshness(ProbeAssertion(Naive(w), Pert(0, 2, 4)), 0) :
                    w \in {0 - 4, 0} },
     gate_2 |-> { gate_2_stability(ProbeAssertion(Naive(0), d), 15, v) :
                    d \in {Pert(0, 2, 4), Pert(3, 3, 3)},
                    v \in {NoValue, Num(2), Num(4), Num(9)} },
     gate_3 |-> { gate_3_convergence(ProbeAssertion(Naive(0), d1),
                                     ProbeAssertion(Naive(0), d2), 50) :
                    d1 \in {Pert(0, 2, 4), Pert(6, 7, 8), Pert(3, 3, 3)},
                    d2 \in {Pert(0, 2, 4), Pert(6, 7, 8), Pert(3, 3, 3)} },
     gate_4 |-> { gate_4_structure(h, c) :
                    h \in StoredHashes, c \in {StaticValue, _get_formula_hash(FormulaA)} }]

NarrativeProbes ==
    UNION { { [gate |-> "narrative", applied |-> FALSE, gate_type |-> g,
               gate_result |-> r, result |-> NoResult] : r \in GateResults[g] } :
            g \in DOMAIN GateResults }

ApplyNarrative ==
    /\ probe.gate = "narrative"
    /\ ~probe.applied
    /\ probe' = [probe EXCEPT
                    !.applied = TRUE,
                    !.result = get_human_narrative(probe.gate_type, probe.gate_result)]
    /\ UNCHANGED << now, manifest, sheet, fileExists, active_bypasses, current_assertions,
                    last_status, total_checks, halt_count, last_check, governance_state,
                    pc, cyc, lock, cur_timer, tm, nEvents, req, nReq, audit_log, manager >>

\* Loading a manifest: ManifestLoader.load builds DREManifest(**data), which
\* builds a PertDistribution from the three numbers of every assertion; the
\* validator of the max field raises unless min <= mode <= max, and load
\* re-raises.  The shape parameters are what the gates compute from a loaded
\* distribution.
ValidationError == [error |-> "Distribution violation"]

check_distribution_ends_only(lo, mo, hi) ==
    IF lo <= hi THEN Pert(lo, mo, hi) ELSE ValidationError

check_distribution(lo, mo, hi) ==
    IF lo <= mo /\ mo <= hi THEN Pert(lo, mo, hi) ELSE ValidationError

load(raw) ==
    LET built == [i \in DOMAIN raw |-> check_distribution(raw[i][1], raw[i][2], raw[i][3])]
    IN IF \E i \in DOMAIN built : built[i] = ValidationError
       THEN [ok |-> FALSE]
       ELSE [ok |-> TRUE, distributions |-> built,
             shapes |-> [i \in DOMAIN built |-> _pert_to_beta(built[i])]]

MaxNumber == 2
RawTriples == (0..MaxNumber) \X (0..MaxNumber) \X (0..MaxNumber)

LoadProbes ==
    { [gate |-> "load", applied |-> FALSE, raw |-> << r1, r2 >>, result |-> NoResult] :
      r1 \in RawTriples, r2 \in RawTriples }

ApplyLoad ==
    /\ probe.gate = "load"
    /\ ~probe.applied
    /\ probe' = [probe EXCEPT !.applied = TRUE, !.result = load(probe.raw)]
    /\ UNCHANGED << now, manifest, sheet, fileExists, active_bypasses, current_assertions,
                    last_status, total_checks, halt_count, last_check, governance_state,
                    pc, cyc, lock, cur_timer, tm, nEvents, req, nReq, audit_log, manager >>

\* The one-shot check command of cli.py.  `x or ""` turns None and the empty
\* string into the empty string.
OrEmpty(x) == IF x = None \/ x = <<>> THEN <<>> ELSE x

\* check, lines 946-980: the gates of one assertion
CheckAssertion(m, assertion, data_map, t) ==
    LET gate1_result == gate_1_freshness(assertion, t)
        assertion_data_entry == data_map[assertion.id]
        current_value == assertion_data_entry.value
        gate2_result == IF current_value.kind # "none"
                        THEN gate_2_stability(assertion, m.stability_threshold, current_value)
                        ELSE [status |-> "SKIP", reason |-> "No current value available"]
        stored_hash == OrEmpty(assertion.formula_hash)
        current_hash == assertion_data_entry.formula_hash
        gate4_result == gate_4_structure(stored_hash, current_hash)
    IN [id |-> assertion.id,
        gates |-> [gate_1_freshness |-> gate1_result.status,
                   gate_2_stability |-> gate2_result.status,
                   gate_3_convergence |-> "SKIP",
                   gate_4_structure |-> gate4_result.status]]

\* check, lines 909-1032: what it prints as the status, and the exit code of
\* the process.  In the --json branch the function returns after printing,
\* which ends the process with code 0; sys.exit is called in the other
\* branch and in the exception handler only.
check(m, sh, t, output_json, readable) ==
    IF ~readable
    THEN [status |-> "ERROR", assertions |-> <<>>, exit_code |-> 1]
    ELSE LET data_map == read_data(m, sh)
             assertions == [i \in 1..Len(m.assertions) |->
                               CheckAssertion(m, m.assertions[i], data_map, t)]
             all_passed == \A i \in DOMAIN assertions :
                              /\ assertions[i].gates.gate_1_freshness # "HALT"
                              /\ assertions[i].gates.gate_2_stability # "HALT"
                              /\ assertions[i].gates.gate_4_structure # "HALT"
             status == IF all_passed THEN "PASS" ELSE "HALT"
         IN [status |-> status, assertions |-> assertions,
             exit_code |-> IF output_json THEN 0
                           ELSE IF status = "HALT" THEN 1 ELSE 0]

\* A manifest whose second assertion has no stored fingerprint
\* (binding.formula_hash is Optional and defaults to None).
ManifestUnbound ==
    [ManifestWith(Pert(0, 2, 4)) EXCEPT !.assertions[2].formula_hash = None]

CheckManifests == { ManifestWith(Pert(0, 2, 4)), ManifestUnbound }

CheckProbes ==
    { [gate |-> "check", applied |-> FALSE, manifest |-> m, sheet |-> sh, at |-> t,
       output_json |-> j, readable |-> r, result |-> NoResult] :
      m \in CheckManifests, sh \in Sheets, t \in 0..MaxTime,
      j \in BOOLEAN, r \in BOOLEAN }

ApplyCheck ==
    /\ probe.gate = "check"
    /\ ~probe.applied
    /\ probe' = [probe EXCEPT
                    !.applied = TRUE,
                    !.result = check(probe.manifest, probe.sheet, probe.at,
                                     probe.output_json, probe.readable)]
    /\ UNCHANGED << now, manifest, sheet, fileExists, active_bypasses, current_assertions,
                    last_status, total_checks, halt_count, last_check, governance_state,
                    pc, cyc, lock, cur_timer, tm, nEvents, req, nReq, audit_log, manager >>

\* Override signatures.  A string is the sequence of its characters; SHA-256
\* is taken to be free of collisions, so a digest stands for its input.
Sha256(text) == [sha256 |-> text]

\* verify_signature.compute_hash: f"{justification}|{signature}|{timestamp}"
compute_hash(justification, signature, timestamp) ==
    Sha256(justification \o << "|" >> \o signature \o << "|" >> \o timestamp)

\* dict.get(key, default)
Get(dict, key, default) == IF key \in DOMAIN dict THEN dict[key] ELSE default

\* AuditLogger.log_event, lines 45-53: the entry as it is written (the
\* session id and the time of writing play no part in the verification)
entry_of(event_type, assertion_id, details, user, severity) ==
    [severity |-> severity, event_type |-> event_type, assertion_id |-> assertion_id,
     user_anchor |-> user, details |-> details]

\* submit_override, bridge.py:213-225: the event of one id of the request
override_entry(request, assertion_id) ==
    entry_of("OVERRIDE_REQUEST", assertion_id,
             [justification |-> request.justification,
              timestamp |-> request.timestamp,
              signature_hash |-> request.signature_hash,
              hash_input |-> SubSeq(request.justification, 1,
                                    Min2(50, Len(request.justification)))
                             \o << "|" >> \o request.signature
                             \o << "|" >> \o request.timestamp],
             request.signature, "WARN")

\* the verdict on an entry whose signer is looked up under another key
verify_entry_reading(entry, signer_key) ==
    LET details == Get(entry, "details", << >>)
        stored_hash == Get(details, "signature_hash", << >>)
        justification == Get(details, "justification", << >>)
        user == Get(entry, signer_key, << >>)
        timestamp == Get(details, "timestamp", << >>)
    IN IF justification # << >> /\ user # << >> /\ timestamp # << >>
       THEN IF compute_hash(justification, user, timestamp) = stored_hash
            THEN "VALID" ELSE "TAMPERED"
       ELSE "INCOMPLETE"

\* verify_audit_log, lines 66-88: the verdict on one OVERRIDE_REQUEST entry
verify_entry(entry) == verify_entry_reading(entry, "user")

\* What may be done to an entry of the file before it is verified.
Alterations == {"none", "justification", "signer", "timestamp"}
Forged == << "x" >>
Alter(entry, what) ==
    CASE what = "justification" -> [entry EXCEPT !.details.justification = Forged]
      [] what = "signer" -> [entry EXCEPT !.user_anchor = Forged]
      [] what = "timestamp" -> [entry EXCEPT !.details.timestamp = Forged]
      [] OTHER -> entry

Signers == { << "s" >>, << "s", "|", "s" >> }
Reasons == { << "j" >>, << "j", "|", "s" >> }
Stamps == { << "1" >>, << "2" >> }

OverrideRequest(justification, signature, timestamp, signature_hash) ==
    [justification |-> justification, signature |-> signature, timestamp |-> timestamp,
     signature_hash |-> signature_hash]

\* Requests signed as the dashboard signs them, and requests with another hash.
SignedRequests ==
    { OverrideRequest(j, sg, ts, h) :
        j \in Reasons, sg \in Signers, ts \in Stamps,
        h \in { compute_hash(j2, sg2, ts2) : j2 \in Reasons, sg2 \in Signers, ts2 \in Stamps } }

VerifyProbes ==
    { [gate |-> "verify", applied |-> FALSE, request |-> r, assertion_id |-> "a1",
       altered |-> what, entry |-> << >>, result |-> NoResult] :
      r \in SignedRequests, what \in Alterations }

ApplyVerify ==
    /\ probe.gate = "verify"
    /\ ~probe.applied
    /\ LET entry == Alter(override_entry(probe.request, probe.assertion_id), probe.altered)
       IN probe' = [probe EXCEPT
                       !.applied = TRUE,
                       !.entry = entry,
                       !.result = [status |-> verify_entry(entry)]]
    /\ UNCHANGED << now, manifest, sheet, fileExists, active_bypasses, current_assertions,
                    last_status, total_checks, halt_count, last_check, governance_state,
                    pc, cyc, lock, cur_timer, tm, nEvents, req, nReq, audit_log, manager >>

\* ExcelIngestor.read_data with its retry loop.  What one attempt finds:
\* the file locked by Excel (PermissionError from load_workbook), the file
\* missing (FileNotFoundError), a workbook without a sheet an assertion names
\* or with a cell reference that cannot be read (ValueError, lines 54-58 and
\* 76-81), a file that is no workbook (any other exception), or a workbook
\* that can be read.
Retries == 5
Delay == 1
Findings == {"locked", "missing", "bad_sheet", "bad_cell", "corrupt", "ok"}

Raised(error, attempts, slept) ==
    [status |-> "raised", error |-> error, attempts |-> attempts, slept |-> slept,
     results |-> << >>]

RECURSIVE read_data_from_no_giving_up(_, _, _, _, _, _, _)
read_data_from_no_giving_up(m, sh, found, i, retries, delay, slept) ==
    IF i >= retries /\ i >= Len(found)
    THEN Raised("PermissionError", i, slept)
    ELSE LET f == found[i + 1]
         IN CASE f = "ok" ->
                    [status |-> "returned", error |-> "none", attempts |-> i + 1,
                     slept |-> slept, results |-> read_data(m, sh)]
              [] f = "locked" ->
                    read_data_from_no_giving_up(m, sh, found, i + 1, retries, delay,
                                   Append(slept, delay * Pow(2, i)))
              [] f \in {"bad_sheet", "bad_cell"} -> Raised("ValueError", i + 1, slept)
              [] f = "missing" -> Raised("FileNotFoundError", i + 1, slept)
              [] OTHER -> Raised("RuntimeError", i + 1, slept)

read_data_no_giving_up(m, sh, found, retries, delay) ==
    read_data_from_no_giving_up(m, sh, found, 0, retries, delay, << >>)

\* the body of `for i in range(retries)`, from attempt i on, and the raise
\* after the loop
RECURSIVE read_data_from(_, _, _, _, _, _, _)
read_data_from(m, sh, found, i, retries, delay, slept) ==
    IF i >= retries
    THEN Raised("PermissionError", i, slept)
    ELSE LET f == found[i + 1]
         IN CASE f = "ok" ->
                    [status |-> "returned", error |-> "none", attempts |-> i + 1,
                     slept |-> slept, results |-> read_data(m, sh)]
              [] f = "locked" ->
                    read_data_from(m, sh, found, i + 1, retries, delay,
                                   Append(slept, delay * Pow(2, i)))
              [] f \in {"bad_sheet", "bad_cell"} -> Raised("ValueError", i + 1, slept)
              [] f = "missing" -> Raised("FileNotFoundError", i + 1, slept)
              [] OTHER -> Raised("RuntimeError", i + 1, slept)

read_data_retrying(m, sh, found, retries, delay) ==
    read_data_from(m, sh, found, 0, retries, delay, << >>)

\* What the attempts find, one finding more than the attempts allowed.
ReadProbes ==
    { [gate |-> "read_data", applied |-> FALSE, manifest |-> ManifestWith(Pert(0, 2, 4)),
       sheet |-> sh, found |-> found, result |-> NoResult] :
      sh \in Sheets, found \in [1..(Retries + 1) -> Findings] }

ApplyReadData ==
    /\ probe.gate = "read_data"
    /\ ~probe.applied
    /\ probe' = [probe EXCEPT
                    !.applied = TRUE,
                    !.result = read_data_retrying(probe.manifest, probe.sheet,
                                                  probe.found, Retries, Delay)]
    /\ UNCHANGED << now, manifest, sheet, fileExists, active_bypasses, current_assertions,
                    last_status, total_checks, halt_count, last_check, governance_state,
                    pc, cyc, lock, cur_timer, tm, nEvents, req, nReq, audit_log, manager >>

\* read_data called on its own.
InitRead ==
    /\ InitMonitor({ ManifestWith(Pert(0, 2, 4)) })
    /\ probe \in ReadProbes

NextRead == ApplyReadData

SpecRead == InitRead /\ [][NextRead]_vars

InitCalls ==
    /\ InitMonitor({ ManifestWith(Pert(0, 2, 4)) })
    /\ probe \in ConvergenceProbes \cup StructureProbes \cup NarrativeProbes
                 \cup LoadProbes \cup CheckProbes \cup VerifyProbes

NextCalls ==
    \/ ApplyGate3
    \/ ApplyGate4
    \/ ApplyNarrative
    \/ ApplyLoad
    \/ ApplyCheck
    \/ ApplyVerify

SpecCalls == InitCalls /\ [][NextCalls]_vars

\* -------------------------------------------------------------- properties
\* Steps of a behaviour, named by what they change.
EvaluateStep(t) == pc[t] = "ingest" /\ pc'[t] = "commit"
CommitStep(t) == pc[t] = "commit" /\ pc'[t] = "publish"
RequestStep == nReq' = nReq + 1

BatchIds(batch) == { batch[k] : k \in 1..Len(batch) }

\* an entry of a per-assertion report carries a HALT
ShowsHalt(entry) ==
    \/ entry.gate_status.freshness = "HALT"
    \/ entry.gate_status.stability = "HALT"
    \/ entry.gate_status.alignment = "HALT"

\* the report has an entry for id, and it carries a HALT
HaltInReport(report, id) ==
    \E i \in 1..Len(report) : report[i].id = id /\ ShowsHalt(report[i])

\* id has a bypass record that has not expired at clock value t
ActiveBypass(ledger, id, t) ==
    \E k \in DOMAIN ledger : k = id /\ t < ledger[k].expiry

\* a Gate 3 result of the pass is a HALT
ConflictHalt(conflicts) ==
    \E c \in 1..Len(conflicts) : conflicts[c].status = "HALT"

\* C1 (as stated): at no time are two evaluation cycles executing, whichever
\* sources triggered them (watcher callback, accepted override, initial run).
C1_OneCycleAtATime ==
    \A s, t \in Threads : (InCycle(s) /\ InCycle(t)) => s = t

\* C2 (as stated): a file-change trigger whose timer fires while a cycle is
\* running is dropped, and no callback waits for the lock to run a cycle later.
C2_DroppedNotQueued ==
    \A i \in 1..MaxEvents :
        /\ tm[i].busyAtFire => pc[TimerThread(i)] = "dropped"
        /\ pc[TimerThread(i)] = "acquire" => lock = "free"

C4_RejectionChangesNothing ==
    [][/\ ( /\ RequestStep
            /\ \E k \in 1..Len(req'.batch) : ~HaltInReport(current_assertions, req'.batch[k]) )
          => /\ active_bypasses' = active_bypasses
             /\ pc'["api"] = "rejected"
             /\ cyc' = cyc
       /\ pc["api"] = "rejected" => pc'["api"] \in {"rejected", "idle"}
      ]_vars

\* C4 witness: a batch whose first id is valid and whose second is unknown has
\* been rejected, with a ledger that held a record already
C4_Witness ==
    /\ pc["api"] = "rejected"
    /\ req.batch = <<"a1", UnknownId>>
    /\ HaltInReport(current_assertions, "a1")
    /\ req.before # EmptyLedger
    /\ active_bypasses = req.before

\* C5 (as stated): register_bypass accepts a batch iff every id exists in the
\* most recent results and shows HALT on at least one of the four gates, the
\* pairwise conflict gate included.
C5_AcceptsIffHaltOnAnyGate ==
    [][(RequestStep /\ req'.timestamp # BadTimestamp)
         => ( pc'["api"] = "ingest"
              <=> \A k \in 1..Len(req'.batch) :
                     /\ assertion_found(current_assertions, req'.batch[k])
                     /\ \/ HaltInReport(current_assertions, req'.batch[k])
                        \/ \E c \in 1..Len(ConflictResults(manifest)) :
                              /\ ConflictResults(manifest)[c].status = "HALT"
                              /\ req'.batch[k] \in { ConflictResults(manifest)[c].pair[1],
                                                     ConflictResults(manifest)[c].pair[2] } )
      ]_vars

\* C6: an accepted register_bypass writes for every id of the batch a record
\* with expiry = timestamp + ttl that replaces any earlier record, leaves the
\* records of the other ids unchanged, and then runs exactly one cycle, which
\* evaluates with all the records written.
C6_AcceptedWritesThenOneCycle ==
    [][/\ (RequestStep /\ pc'["api"] = "ingest")
          => /\ DOMAIN active_bypasses' = DOMAIN active_bypasses \cup BatchIds(req'.batch)
             /\ \A id \in BatchIds(req'.batch) :
                   /\ active_bypasses'[id].timestamp = req'.timestamp
                   /\ active_bypasses'[id].expiry = req'.timestamp + TtlTicks
                   /\ DOMAIN active_bypasses'[id] =
                         {"justification", "signature", "signature_hash", "timestamp", "expiry"}
             /\ \A id \in DOMAIN active_bypasses \ BatchIds(req'.batch) :
                   active_bypasses'[id] = active_bypasses[id]
       /\ (pc'["api"] = "ingest" /\ pc["api"] # "ingest") => RequestStep
       /\ EvaluateStep("api")
          => \A id \in BatchIds(req.batch) :
                active_bypasses[id].expiry = req.timestamp + TtlTicks
       /\ (pc["api"] \in CyclePcs /\ pc'["api"] \notin CyclePcs) => pc'["api"] = "accepted"
       /\ (pc["api"] = "accepted" /\ pc'["api"] # "accepted") => pc'["api"] = "idle"
      ]_vars

\* C6 witness: an accepted request has just replaced a record of one id and
\* left the record of another id alone
C6_Witness ==
    /\ pc["api"] = "ingest"
    /\ \E id \in BatchIds(req.batch) \cap DOMAIN req.before :
          req.before[id] # active_bypasses[id]
    /\ \E id \in DOMAIN req.before \ BatchIds(req.batch) :
          req.before[id] = active_bypasses[id]

\* C7: in every cycle an assertion with a raw HALT on Gate 1, 2 or 4 and a
\* bypass record with now < expiry contributes nothing to global_halt, its
\* statuses are reported as the gates gave them, and with no other HALT in the
\* pass the status is PASS.
C7_SuppressedHaltsDoNotCount ==
    [][\A t \in Threads :
          /\ EvaluateStep(t)
             => LET rep == cyc'[t].report
                    data == read_data(manifest, sheet)
                IN /\ Len(rep) = Len(manifest.assertions)
                   /\ \A i \in 1..Len(manifest.assertions) :
                         LET a == manifest.assertions[i] IN
                         /\ rep[i].id = a.id
                         /\ rep[i].gate_status.freshness = gate_1_freshness(a, now).status
                         /\ rep[i].gate_status.stability =
                               gate_2_stability(a, manifest.stability_threshold,
                                                data[a.id].value).status
                         /\ rep[i].gate_status.alignment =
                               gate_4_structure(a.formula_hash, data[a.id].formula_hash).status
                   /\ ( /\ \A i \in 1..Len(rep) :
                              ShowsHalt(rep[i]) => ActiveBypass(active_bypasses, rep[i].id, now)
                        /\ ~ConflictHalt(cyc'[t].conflict_results) )
                      => ~cyc'[t].global_halt
          /\ CommitStep(t)
             => last_status' = IF cyc[t].global_halt THEN "HALT" ELSE "PASS"
      ]_vars

\* C7 witness: the override's own cycle found a HALT, suppressed it and is
\* about to commit PASS
C7_Witness ==
    /\ pc["api"] = "commit"
    /\ ~cyc["api"].global_halt
    /\ \E i \in 1..Len(cyc["api"].report) :
          /\ ShowsHalt(cyc["api"].report[i])
          /\ ActiveBypass(active_bypasses, cyc["api"].report[i].id, cyc["api"].at)

\* C8 (as stated): global_halt is true iff at least one unsuppressed HALT
\* exists in the pass, Gate 3 results included: a conflict HALT whose two
\* assertions both hold an active bypass record does not count.
C8_GlobalHaltIffUnsuppressedHalt ==
    [][\A t \in Threads :
          EvaluateStep(t)
          => ( cyc'[t].global_halt
               <=> \/ \E i \in 1..Len(cyc'[t].report) :
                         /\ ShowsHalt(cyc'[t].report[i])
                         /\ ~ActiveBypass(active_bypasses, cyc'[t].report[i].id, now)
                   \/ \E c \in 1..Len(cyc'[t].conflict_results) :
                         /\ cyc'[t].conflict_results[c].status = "HALT"
                         /\ ~( /\ ActiveBypass(active_bypasses,
                                               cyc'[t].conflict_results[c].pair[1], now)
                               /\ ActiveBypass(active_bypasses,
                                               cyc'[t].conflict_results[c].pair[2], now) ) )
      ]_vars

\* C9: an assertion is suppressed in a cycle iff it has a record and
\* now < expiry: a reported HALT with no record, or at or after the expiry,
\* sets global_halt; before the expiry it does not; and a cycle leaves the
\* ledger as it is (nothing expires a record).
C9_SuppressedIffBeforeExpiry ==
    [][\A t \in Threads :
          EvaluateStep(t)
          => LET rep == cyc'[t].report IN
             /\ \A i \in 1..Len(rep) :
                   ( /\ ShowsHalt(rep[i])
                     /\ \/ rep[i].id \notin DOMAIN active_bypasses
                        \/ now >= active_bypasses[rep[i].id].expiry )
                   => cyc'[t].global_halt
             /\ ( /\ ~ConflictHalt(cyc'[t].conflict_results)
                  /\ \A i \in 1..Len(rep) :
                        ShowsHalt(rep[i])
                        => /\ rep[i].id \in DOMAIN active_bypasses
                           /\ now < active_bypasses[rep[i].id].expiry )
                => ~cyc'[t].global_halt
             /\ active_bypasses' = active_bypasses
      ]_vars

\* C9 witness: the override's own cycle evaluated exactly at the expiry of
\* the record of a halted assertion, and counts the HALT
C9_Witness ==
    /\ pc["api"] = "commit"
    /\ cyc["api"].global_halt
    /\ ~ConflictHalt(cyc["api"].conflict_results)
    /\ \A i \in 1..Len(cyc["api"].report) :
          ShowsHalt(cyc["api"].report[i])
          => /\ cyc["api"].report[i].id \in DOMAIN active_bypasses
             /\ cyc["api"].at = active_bypasses[cyc["api"].report[i].id].expiry

\* C10: a bypass record is never deleted, and it changes only in the step of
\* an accepted request that names its id: cycles, the passing of the expiry
\* and rejected requests leave every record as it is.
C10_RecordsNeverDeleted ==
    [][\A id \in DOMAIN active_bypasses :
          /\ id \in DOMAIN active_bypasses'
          /\ active_bypasses'[id] # active_bypasses[id]
             => /\ RequestStep
                /\ pc'["api"] = "ingest"
                /\ id \in BatchIds(req'.batch)
      ]_vars

\* C10 witness: a record is past its expiry, cycles have run since it was
\* written, and a later request has been rejected
C10_Witness ==
    /\ pc["api"] = "rejected"
    /\ total_checks >= 2
    /\ \E id \in DOMAIN active_bypasses : now > active_bypasses[id].expiry

\* a cycle of thread t ends by an exception: it returns before its state
\* update
FailStep(t) == pc[t] = "ingest" /\ pc'[t] \notin {"ingest", "commit"}

ErrorStatuses == {"ERROR: read_data", "ERROR: log_event"}
Returned(t) == IF t = "mon" THEN "watching" ELSE IF t = "api" THEN "accepted" ELSE "done"

C12_IngestFailureFrame ==
    [][\A t \in Threads :
          (FailStep(t) /\ last_status' = "ERROR: read_data")
          => UNCHANGED << total_checks, halt_count, last_check, current_assertions,
                          active_bypasses, audit_log >>]_vars

\* the file vanished under a callback that had passed the existence test:
\* its read failed, after an initial cycle that halted and wrote its events
C12_Witness ==
    /\ pc["t1"] = "done"
    /\ ~fileExists
    /\ last_status = "ERROR: read_data"
    /\ total_checks = 1
    /\ halt_count = 1
    /\ audit_log # <<>>
    /\ current_assertions # <<>>

\* C13 (as stated): a failure of log_event never aborts a cycle; no cycle
\* ends with an ERROR status owed to the audit ledger.
C13_AuditFailureNeverAborts == last_status # "ERROR: log_event"

\* the events a step appends to the audit file
Appended == SubSeq(audit_log', Len(audit_log) + 1, Len(audit_log'))

\* how many of the events are of the type and for the id(s) given
CountEvents(events, event_type, assertion_id) ==
    Cardinality({ k \in 1..Len(events) : /\ events[k].event_type = event_type
                                         /\ events[k].assertion_id = assertion_id })

\* C14: the evaluation of a cycle appends exactly one HALT event for every
\* assertion whose report entry carries a HALT (Gate 1, 2 or 4) and which has
\* no unexpired bypass, one GATE_3_CONFLICT event for every configured pair
\* whose Gate 3 result is HALT, and nothing else; the events already in the
\* file stay.
C14_EventsIffUnsuppressedHalt ==
    [][\A t \in Threads :
          EvaluateStep(t) =>
             /\ SubSeq(audit_log', 1, Len(audit_log)) = audit_log
             /\ \A id \in Ids :
                   CountEvents(Appended, "HALT", << id >>) =
                      IF /\ HaltInReport(cyc'[t].report, id)
                         /\ ~ActiveBypass(active_bypasses, id, now)
                      THEN 1 ELSE 0
             /\ \A id1, id2 \in Ids :
                   CountEvents(Appended, "GATE_3_CONFLICT", << id1, id2 >>) =
                      Cardinality({ c \in 1..Len(cyc'[t].conflict_results) :
                                      /\ cyc'[t].conflict_results[c].pair = << id1, id2 >>
                                      /\ cyc'[t].conflict_results[c].status = "HALT" })
             /\ \A k \in 1..Len(Appended) :
                   \/ /\ Appended[k].event_type = "HALT"
                      /\ \E id \in Ids : Appended[k].assertion_id = << id >>
                   \/ /\ Appended[k].event_type = "GATE_3_CONFLICT"
                      /\ \E id1, id2 \in Ids : Appended[k].assertion_id = << id1, id2 >>]_vars

\* the override's cycle found a1 halted and suppressed, a2 halted and not
\* suppressed, and the pair in conflict: it wrote a HALT event for a2 and the
\* conflict event, and the only HALT event for a1 in the file is an older one
C14_Witness ==
    /\ pc["api"] = "commit"
    /\ HaltInReport(cyc["api"].report, "a1")
    /\ ActiveBypass(active_bypasses, "a1", cyc["api"].at)
    /\ HaltInReport(cyc["api"].report, "a2")
    /\ ~ActiveBypass(active_bypasses, "a2", cyc["api"].at)
    /\ ConflictHalt(cyc["api"].conflict_results)
    /\ Len(audit_log) >= 2
    /\ audit_log[Len(audit_log) - 1].event_type = "HALT"
    /\ audit_log[Len(audit_log) - 1].assertion_id = << "a2" >>
    /\ audit_log[Len(audit_log)].event_type = "GATE_3_CONFLICT"
    /\ CountEvents(audit_log, "HALT", << "a1" >>) = 1

\* C15 (as stated): every HALT and every GATE_3_CONFLICT event in the audit
\* file has severity CRITICAL, whatever the overlap of the pair.
C15_HaltEventsAreCritical ==
    \A k \in 1..Len(audit_log) :
        audit_log[k].event_type \in {"HALT", "GATE_3_CONFLICT"}
        => audit_log[k].severity = "CRITICAL"

C17_ConsecutiveCyclesAgree ==
    [][(/\ EvaluateStep("api")
        /\ pc["mon"] = "watching"
        /\ last_status \in {"PASS", "HALT"}
        /\ active_bypasses = EmptyLedger)
       => cyc'["api"].report = current_assertions]_vars

\* C17 (amended): with the workbook unchanged, a cycle produces the Gate 2
\* and Gate 4 statuses of the cycle before it, whatever the ledger and the
\* time between them; the Gate 1 status follows the clock, and can only turn
\* from PASS to HALT.
C17_AgreeUpToFreshness ==
    [][\A t \in Threads :
          (EvaluateStep(t) /\ current_assertions # <<>>) =>
             \A i \in 1..Len(current_assertions) :
                /\ cyc'[t].report[i].id = current_assertions[i].id
                /\ cyc'[t].report[i].gate_status.stability =
                      current_assertions[i].gate_status.stability
                /\ cyc'[t].report[i].gate_status.alignment =
                      current_assertions[i].gate_status.alignment
                /\ current_assertions[i].gate_status.freshness = "HALT"
                      => cyc'[t].report[i].gate_status.freshness = "HALT"]_vars

\* an override's cycle evaluated the unchanged workbook a day after the
\* committed one: a1 has gone stale, everything else is as before
C17_Witness ==
    /\ pc["api"] = "commit"
    /\ current_assertions # <<>>
    /\ current_assertions[1].gate_status.freshness = "PASS"
    /\ cyc["api"].report[1].gate_status.freshness = "HALT"
    /\ cyc["api"].report[1].gate_status.stability = current_assertions[1].gate_status.stability
    /\ cyc["api"].report[1].gate_status.alignment = current_assertions[1].gate_status.alignment
    /\ cyc["api"].report[2] = current_assertions[2]

\* the difference now - last_updated of a Gate 1 call, in ticks, with a naive
\* last_updated read as UTC
AgeTicks(p) ==
    p.at - (IF p.assertion.last_updated.aware
            THEN p.assertion.last_updated.wall - p.assertion.last_updated.offset
            ELSE p.assertion.last_updated.wall)

OutsideRange == "Value outside distribution range"

\* C19: Gate 2 returns SKIP iff there is no current value; for a point
\* distribution it returns PASS if the value is the point and HALT otherwise;
\* for a proper distribution a value outside [min, max] gives HALT with
\* pdf_probability 0 whatever the threshold, a value at min or max is judged by
\* its density and not as outside the range, and a value equal to the mode
\* has ratio 1 and passes for every threshold <= 1.
C19_StabilityCases ==
    (probe.gate = "gate_2" /\ probe.applied) =>
        LET dist == probe.assertion.distribution
            value == probe.current_value
            result == probe.result
        IN /\ result.status = "SKIP" <=> value.kind = "none"
           /\ (value.kind = "num" /\ dist.min = dist.max)
                 => result.status = (IF value.v = dist.min THEN "PASS" ELSE "HALT")
           /\ (value.kind = "num" /\ dist.min < dist.max
                                  /\ (value.v < dist.min \/ value.v > dist.max))
                 => /\ result.status = "HALT"
                    /\ result.reason = OutsideRange
                    /\ result.pdf_probability = 0
           /\ (value.kind = "num" /\ dist.min < dist.max /\ value.v \in {dist.min, dist.max})
                 => result.reason # OutsideRange
           /\ (value.kind = "num" /\ dist.min < dist.max /\ value.v = dist.mode)
                 => /\ result.pdf_ratio_to_mode.num = result.pdf_ratio_to_mode.den
                    /\ probe.threshold <= 100 => result.status = "PASS"

\* Gate 2 has judged a value at the upper end of a proper distribution by
\* its density
C19_Witness ==
    /\ probe.gate = "gate_2"
    /\ probe.applied
    /\ probe.assertion.distribution.min < probe.assertion.distribution.max
    /\ probe.current_value = Num(probe.assertion.distribution.max)
    /\ probe.result.reason = "ratio"

\* C20: for the distribution {800, 1000, 1200} and threshold 0.15, Gate 2
\* passes 1000 with ratio 1, halts 799 as outside the range, and halts 1195 on
\* its density ratio 16 x^2 (1-x)^2 at x = 395/400 = 79/80, which is
\* 79^2 / (80^4 / 16) in lowest terms and below 0.15.
C20_ExampleDistribution ==
    (/\ probe.gate = "gate_2" /\ probe.applied
     /\ probe.assertion.distribution = ExampleDist /\ probe.threshold = 15) =>
        /\ probe.current_value = Num(1000)
              => /\ probe.result.status = "PASS"
                 /\ probe.result.pdf_ratio_to_mode = [num |-> 1, den |-> 1]
        /\ probe.current_value = Num(799)
              => /\ probe.result.status = "HALT"
                 /\ probe.result.reason = OutsideRange
        /\ probe.current_value = Num(1195)
              => /\ probe.result.status = "HALT"
                 /\ probe.result.reason = "ratio"
                 /\ probe.result.pdf_ratio_to_mode =
                       [num |-> Pow(79, 2), den |-> Pow(80, 4) \div 16]
                 /\ 100 * probe.result.pdf_ratio_to_mode.num
                       < 15 * probe.result.pdf_ratio_to_mode.den

\* Gate 2 has halted 1195 against {800, 1000, 1200} at threshold 0.15
C20_Witness ==
    /\ probe.gate = "gate_2"
    /\ probe.applied
    /\ probe.assertion.distribution = ExampleDist
    /\ probe.threshold = 15
    /\ probe.current_value = Num(1195)
    /\ probe.result.status = "HALT"
    /\ probe.result.reason = "ratio"

\* C21: Gate 3 returns PASS with severity INFO exactly when the overlap is at
\* least the cutoff and HALT otherwise; a HALT is CRITICAL exactly when the
\* overlap is below 0.01 and MAJOR otherwise, so an overlap of exactly 0.01
\* under a larger cutoff is MAJOR.
C21_ConvergenceVerdict ==
    (probe.gate = "gate_3" /\ probe.applied) =>
        LET overlap == _calculate_overlap(probe.assertion1.distribution,
                                          probe.assertion2.distribution)
            r == probe.result
        IN /\ r.overlap_integral = overlap
           /\ r.status \in {"PASS", "HALT"}
           /\ r.status = "PASS" <=> overlap >= probe.cutoff
           /\ r.status = "PASS" => r.severity = "INFO"
           /\ r.status = "HALT" => r.severity \in {"CRITICAL", "MAJOR"}
           /\ r.status = "HALT" => (r.severity = "CRITICAL" <=> overlap < MinimalOverlap)
           /\ (overlap = MinimalOverlap /\ overlap < probe.cutoff) =>
                  (r.status = "HALT" /\ r.severity = "MAJOR")

C21_Witness ==
    /\ probe.gate = "gate_3"
    /\ probe.applied
    /\ probe.result.overlap_integral = MinimalOverlap
    /\ probe.cutoff = 50
    /\ probe.result.status = "HALT"
    /\ probe.result.severity = "MAJOR"

\* A distribution with max > min, and a pair of them whose supports share no
\* interval: max(minA, minB) >= min(maxA, maxB).
NonDegenerate(pert) == pert.max > pert.min

DisjointSupports(pert1, pert2) ==
    /\ NonDegenerate(pert1)
    /\ NonDegenerate(pert2)
    /\ Max2(pert1.min, pert2.min) >= Min2(pert1.max, pert2.max)

DisjointPairProbe ==
    /\ probe.gate = "gate_3"
    /\ probe.applied
    /\ DisjointSupports(probe.assertion1.distribution, probe.assertion2.distribution)

\* C22 as stated: for non-degenerate distributions with disjoint supports the
\* overlap is 0.0 and Gate 3 returns HALT with severity CRITICAL, whatever
\* the configured overlap_integral_cutoff.
C22_DisjointAlwaysCritical ==
    DisjointPairProbe =>
        /\ probe.result.overlap_integral = 0
        /\ probe.result.status = "HALT"
        /\ probe.result.severity = "CRITICAL"

\* C22 amended: the same, for every overlap_integral_cutoff above zero; with
\* a cutoff of zero the overlap 0.0 is not below it and Gate 3 passes.
C22_DisjointCriticalAboveZero ==
    DisjointPairProbe =>
        /\ probe.result.overlap_integral = 0
        /\ probe.cutoff > 0 =>
              (probe.result.status = "HALT" /\ probe.result.severity = "CRITICAL")
        /\ probe.cutoff = 0 =>
              (probe.result.status = "PASS" /\ probe.result.severity = "INFO")

C22_Witness ==
    /\ DisjointPairProbe
    /\ probe.assertion1.distribution = Pert(0, 2, 4)
    /\ probe.assertion2.distribution = Pert(4, 6, 8)
    /\ probe.cutoff = 5
    /\ probe.result.severity = "CRITICAL"

\* C23: the overlap of two distributions is the same in either order and lies
\* in [0.0, 1.0], so Gate 3 gives a conflict pair the same status and
\* severity whichever of its two assertions is listed first.
C23_OverlapSymmetricBounded ==
    (probe.gate = "gate_3" /\ probe.applied) =>
        /\ probe.result.overlap_integral = probe.swapped.overlap_integral
        /\ probe.result.overlap_integral >= 0
        /\ probe.result.overlap_integral <= OverlapScale
        /\ probe.result.status = probe.swapped.status
        /\ probe.result.severity = probe.swapped.severity

C23_Witness ==
    /\ probe.gate = "gate_3"
    /\ probe.applied
    /\ probe.assertion1.distribution = Pert(0, 2, 4)
    /\ probe.assertion2.distribution = Pert(2, 4, 6)
    /\ probe.result.overlap_integral > 0
    /\ probe.result.overlap_integral < OverlapScale
    /\ probe.swapped.overlap_integral = probe.result.overlap_integral

\* A distribution whose range is zero: _pert_to_beta gives it scale 0.
PointMass(pert) == pert.max - pert.min = 0

\* C24: two point masses overlap 1.0 when they sit at the same location and
\* 0.0 otherwise; exactly one point mass gives the constant 0.01 wherever the
\* point lies, inside or outside the other distribution's support, and that
\* is a HALT of severity MAJOR under the default cutoff 0.05.
C24_DegeneratePairs ==
    (probe.gate = "gate_3" /\ probe.applied) =>
        LET d1 == probe.assertion1.distribution
            d2 == probe.assertion2.distribution
            r == probe.result
        IN /\ (PointMass(d1) /\ PointMass(d2)) =>
                  r.overlap_integral = IF d1.min = d2.min THEN OverlapScale ELSE 0
           /\ (PointMass(d1) # PointMass(d2)) =>
                  /\ r.overlap_integral = MinimalOverlap
                  /\ probe.cutoff = 50 => (r.status = "HALT" /\ r.severity = "MAJOR")

C24_Witness ==
    /\ probe.gate = "gate_3"
    /\ probe.applied
    /\ probe.assertion1.distribution = Pert(0, 2, 4)
    /\ probe.assertion2.distribution = Pert(9, 9, 9)
    /\ probe.cutoff = 50
    /\ probe.result.overlap_integral = MinimalOverlap
    /\ probe.result.severity = "MAJOR"

\* A cell whose content is not a formula: empty, or text not starting with "=".
StaticCell(cell) ==
    /\ cell.kind = "cell"
    /\ cell.formula \notin {FormulaA, FormulaB}

\* C25: Gate 4 returns SKIP exactly when the stored or the current
\* fingerprint is None; otherwise PASS when the two are equal and HALT when
\* they differ.  A cell that holds no formula always has the sentinel
\* fingerprint, so a stored sentinel passes against a static cell and halts
\* against a cell that now holds a formula.
C25_StructureCases ==
    (probe.gate = "gate_4" /\ probe.applied) =>
        LET stored == probe.stored_hash
            current == probe.current_hash
            status == probe.result.status
        IN /\ status \in {"SKIP", "PASS", "HALT"}
           /\ status = "SKIP" <=> (stored = None \/ current = None)
           /\ (stored # None /\ current # None) =>
                  /\ status = "PASS" <=> stored = current
                  /\ status = "HALT" <=> stored # current
           /\ StaticCell(probe.cell) => current = StaticValue
           /\ (stored = StaticValue /\ StaticCell(probe.cell)) => status = "PASS"
           /\ (stored = StaticValue /\ probe.cell.kind = "cell" /\ ~StaticCell(probe.cell)) =>
                  status = "HALT"

C25_Witness ==
    /\ probe.gate = "gate_4"
    /\ probe.applied
    /\ probe.stored_hash = StaticValue
    /\ probe.cell = ReadCell(FormulaA)
    /\ probe.result.status = "HALT"

\* C26: a SKIP result is told apart from a PASS result in what is reported:
\* the narrative translation of a SKIP result differs from the narrative of
\* a PASS result of the same gate.
C26_SkipNarrativeDiffers ==
    (probe.gate = "narrative" /\ probe.applied /\ probe.gate_result.status = "SKIP") =>
        probe.result # get_human_narrative(probe.gate_type, [status |-> "PASS"])

Ordered(lo, mo, hi) == lo <= mo /\ mo <= hi

\* C28: a manifest loads exactly when every one of its distributions has
\* min <= mode <= max, so every distribution of a loaded manifest is ordered
\* and both shape parameters computed from it lie in [1, 5].
C28_LoadedDistributionsOrdered ==
    (probe.gate = "load" /\ probe.applied) =>
        /\ probe.result.ok <=>
              \A i \in DOMAIN probe.raw :
                  Ordered(probe.raw[i][1], probe.raw[i][2], probe.raw[i][3])
        /\ probe.result.ok =>
              \A i \in DOMAIN probe.raw :
                  LET d == probe.result.distributions[i]
                      b == probe.result.shapes[i]
                  IN /\ d = Pert(probe.raw[i][1], probe.raw[i][2], probe.raw[i][3])
                     /\ Ordered(d.min, d.mode, d.max)
                     /\ 1 <= b.alpha /\ b.alpha <= 5
                     /\ 1 <= b.beta /\ b.beta <= 5

C28_Witness ==
    /\ probe.gate = "load"
    /\ probe.applied
    /\ probe.raw = << <<0, 2, 2>>, <<0, 0, 1>> >>
    /\ probe.result.ok
    /\ probe.result.shapes[1].alpha = 5
    /\ probe.result.shapes[2].alpha = 1

\* Some gate of some assertion in the result of a check is HALT.
AnyGateHalts(result) ==
    \E i \in DOMAIN result.assertions :
        "HALT" \in { result.assertions[i].gates[g] :
                     g \in DOMAIN result.assertions[i].gates }

\* C29: the check command exits with code 1 when any gate of any assertion
\* is HALT and with code 0 when none is, in the human-readable and in the
\* --json output mode, and with code 1 when the check itself fails.
C29_ExitCodeTellsHalt ==
    (probe.gate = "check" /\ probe.applied) =>
        probe.result.exit_code =
            IF ~probe.readable THEN 1
            ELSE IF AnyGateHalts(probe.result) THEN 1 ELSE 0

\* C30: for the same manifest and the same ingested data, with an empty
\* bypass ledger, the check command and the monitor's cycle give every
\* assertion the same Gate 1, Gate 2 and Gate 4 statuses and reach the same
\* overall HALT/PASS verdict.
C30_CheckAgreesWithCycle ==
    (probe.gate = "check" /\ probe.applied /\ probe.readable) =>
        LET m == probe.manifest
            evals == Evaluations(m, probe.sheet, probe.at, EmptyLedger)
            cli == probe.result.assertions
        IN /\ \A i \in DOMAIN evals :
                 /\ cli[i].id = evals[i].id
                 /\ cli[i].gates.gate_1_freshness = evals[i].entry.gate_status.freshness
                 /\ cli[i].gates.gate_2_stability = evals[i].entry.gate_status.stability
                 /\ cli[i].gates.gate_4_structure = evals[i].entry.gate_status.alignment
           /\ (probe.result.status = "HALT") <=> GlobalHalt(evals, ConflictResults(m))

\* The step in which thread t leaves the publishing block of its cycle.
PublishStep(t) == pc[t] = "publish" /\ pc'[t] # "publish"

Irrelevant(event) ==
    \/ event.is_directory
    \/ event.src_path[Len(event.src_path)][1] = "~$"
    \/ event.src_path[Len(event.src_path)] = Component("audit_log.jsonl")
    \/ event.src_path \notin {TargetFile, TargetRelative}

\* C33: an event for a directory, a lock file, the audit ledger or any path
\* other than the target file leaves the trigger pipeline as it is: no timer
\* is started, cancelled or postponed, no thread moves, the lock and every
\* piece of cycle state stay, so no cycle is caused.
C33_IrrelevantEventsIgnored ==
    [][\A event \in Events :
          (WatchEvent(event) /\ Irrelevant(event)) =>
             UNCHANGED << pc, cur_timer, tm, lock, cyc, last_status, total_checks,
                          halt_count, last_check, current_assertions, audit_log >>]_vars

\* a pending timer has survived an event that did not concern the target
C33_Witness ==
    /\ nEvents = 2
    /\ cur_timer = 1
    /\ pc[TimerThread(1)] = "armed"
    /\ pc[TimerThread(2)] = "unborn"
    /\ tm[1].deadline = DebounceTicks
    /\ now = 1

\* every attempt of a finished call before its last found the file locked
LockedBefore(p) == \A k \in 1..(p.result.attempts - 1) : p.found[k] = "locked"
AssertionIds(m) == { m.assertions[k].id : k \in 1..Len(m.assertions) }

\* C32: read_data ends after at most `retries` attempts.  Only a locked file
\* is retried, each time after a sleep twice as long as the one before; a
\* bad sheet or cell reference, a missing file or an unreadable file raises
\* on the attempt that finds it; an attempt that can read the workbook
\* returns one entry for each assertion id of the manifest; and `retries`
\* locked attempts end in the locked-file error.
C32_ReadDataRetriesOnlyLocks ==
    (probe.gate = "read_data" /\ probe.applied) =>
        LET r == probe.result
            last == probe.found[r.attempts]
        IN /\ r.attempts \in 1..Retries
           /\ LockedBefore(probe)
           /\ Len(r.slept) = r.attempts - (IF last = "locked" THEN 0 ELSE 1)
           /\ \A k \in 1..Len(r.slept) : r.slept[k] = Delay * Pow(2, k - 1)
           /\ last = "ok" <=> r.status = "returned"
           /\ r.status = "returned" => DOMAIN r.results = AssertionIds(probe.manifest)
           /\ last \in {"bad_sheet", "bad_cell"} <=> r.error = "ValueError"
           /\ last = "missing" <=> r.error = "FileNotFoundError"
           /\ last = "corrupt" <=> r.error = "RuntimeError"
           /\ last = "locked" <=> r.error = "PermissionError"
           /\ last = "locked" => r.attempts = Retries

\* the file was locked for every attempt allowed and free right after
C32_Witness ==
    /\ probe.gate = "read_data"
    /\ probe.applied
    /\ \A k \in 1..Retries : probe.found[k] = "locked"
    /\ probe.found[Retries + 1] = "ok"
    /\ probe.result.error = "PermissionError"
    /\ probe.result.slept = << 1, 2, 4, 8, 16 >>

\* the request of a verification carries the hash of its own three fields
GenuineHash(r) == r.signature_hash = compute_hash(r.justification, r.signature, r.timestamp)

\* C39: an OVERRIDE_REQUEST entry written by the endpoint and left as it is,
\* whose signature_hash is the SHA-256 of justification|signature|timestamp,
\* is reported VALID by verify_audit_log, and such an entry whose
\* justification, signer or timestamp was altered is reported TAMPERED.
C39_VerifyRoundTrip ==
    (probe.gate = "verify" /\ probe.applied /\ GenuineHash(probe.request)) =>
        probe.result.status = (IF probe.altered = "none" THEN "VALID" ELSE "TAMPERED")

\* C38: overrides are time-boxed.  Whatever timestamp an accepted request
\* carries, the records it writes expire no later than the ttl after the
\* moment of acceptance, so that the suppression (current time before the
\* expiry) ends by then.
C38_OverrideTimeBoxed ==
    [][(RequestStep /\ pc'["api"] = "ingest") =>
          \A id \in BatchIds(req'.batch) : active_bypasses'[id].expiry <= now + TtlTicks]_vars

\* C37: a cycle that ends with an ERROR status is atomic: wherever the
\* exception was raised, the counters, the last check time and the report
\* keep their values, and the cycle has written no HALT and no
\* GATE_3_CONFLICT event to the audit ledger.
C37_ErrorCycleAtomic ==
    [][\A t \in Threads :
          FailStep(t) =>
             /\ last_status' \in ErrorStatuses
             /\ UNCHANGED << total_checks, halt_count, last_check, current_assertions >>
             /\ \A k \in (Len(audit_log) + 1)..Len(audit_log') :
                    audit_log'[k].event_type \notin {"HALT", "GATE_3_CONFLICT"}]_vars

\* the status a cycle computed for itself (line 899)
OwnStatus(t) == IF cyc[t].global_halt THEN "HALT" ELSE "PASS"

\* C34: the state stored as the bridge's current governance state is a
\* snapshot of one cycle: the status and the per-assertion report a cycle
\* publishes are both its own, under every interleaving of a cycle started
\* by the watcher and a cycle started by an override.
C34_PublishedSnapshot ==
    [][\A t \in Threads :
          PublishStep(t) =>
             /\ governance_state'.assertions = cyc[t].report
             /\ governance_state'.status = OwnStatus(t)]_vars

\* the steps that end the two increments of a state update
TotalStored(t) == pc[t] = "store_total" /\ pc'[t] = "store_halt"
HaltStored(t) == pc[t] = "store_halt" /\ pc'[t] = "publish"

\* C36: always 0 <= halt_count <= total_checks; neither counter ever
\* decreases; every cycle that reaches its state update adds exactly one to
\* total_checks, and exactly one to halt_count when it ends in HALT and
\* nothing otherwise, so that the counters are the numbers of completed
\* cycles and of completed cycles that halted.
C36_CountersCountCycles ==
    [][/\ 0 <= halt_count' /\ halt_count' <= total_checks'
       /\ halt_count' >= halt_count
       /\ total_checks' >= total_checks
       /\ \A t \in Threads :
             /\ TotalStored(t) => total_checks' = total_checks + 1
             /\ HaltStored(t) =>
                   halt_count' = halt_count + (IF cyc[t].global_halt THEN 1 ELSE 0)]_vars

\* the api thread answers a request
AnswerStep == pc["api"] \in {"accepted", "rejected", "unavailable"} /\ pc'["api"] = "idle"

\* the OVERRIDE_REQUEST events a step appends for id
OverridesFor(id) == CountEvents(Appended, "OVERRIDE_REQUEST", << id >>)

QuietElapsed(i) ==
    /\ pc[TimerThread(i)] = "armed"
    /\ now >= tm[i].deadline
    /\ fileExists
    /\ lock = "free"

\* a callback of the watcher is running a cycle
CycleRuns == \E t \in TimerThreads : InCycle(t)

====
